---------------------------- MODULE Spec2Model ----------------------------
(***************************************************************************)
(* Model of the monad-staking-indexer: the relational store and its        *)
(* upserts, the DbWriter task (process_db_requests), gap detection,        *)
(* chunk_range, the gap backfiller and the live ingestor.                  *)
(***************************************************************************)
EXTENDS Integers, Sequences, FiniteSets, Bags, TLC

VARIABLES
    store,        \* the ten tables: a bag of rows per table name
    db_queue,     \* db channel: DbRequest values, FIFO
    metrics_queue,\* metrics channel: Metric values, FIFO
    gap_queue,    \* gap channel: Range values, FIFO
    single_report,\* outcome of the last single-event insert (insert_staking_event)
    cr_in,        \* chunk_range harness: the call's arguments
    cr_out,       \* chunk_range harness: the call's outcome
    chain,        \* the chain: per block number, the logs of the staking address
    head,         \* number of the latest block the chain has produced
    config,       \* db_batch_size, backfill_chunk_size, gap_check_interval_secs,
                  \* and the URLs that are down
    live,         \* process_live_blocks: its locals and where it stands
    stream,       \* the live subscription: logs sent and not yet consumed
    gaps,         \* process_gaps_task: its locals and where it stands
    scans         \* periodic_gap_check: its interval timer, the requests it sent

storeVars == <<store, db_queue, metrics_queue, gap_queue>>

harnessVars == <<single_report, cr_in, cr_out>>

pipeVars == <<chain, head, config, live, stream, gaps, scans>>

vars == <<storeVars, harnessVars, pipeVars>>

(***************************************************************************)
(* Bounds of the model.                                                    *)
(***************************************************************************)
\* Events in one test-submitted BlockBatch.
MaxBatchEvents == 2
\* Largest value of the scaled-down unsigned word standing for u64::MAX.
MaxWord == 11
\* Largest chunk_size tried by the chunk_range harness.
MaxChunkSize == 4
\* Largest block number written by the gap detection harness.
MaxBlock == 5
\* Failed connection attempts of one task.
MaxAttempts == 1
\* Metrics that may wait in the metrics channel.
MaxMetrics == 1
\* GetBlockGaps requests the gap scanner sends.
MaxScans == 1
\* Largest db_batch_size of the configuration.
MaxBatchSize == 1
\* Largest backfill_chunk_size of the configuration.
MaxBackfillChunk == 2

\* The number of RPC URLs of the configuration.
NumUrls == 2

\* gap_check_interval_secs ranges over 0..MaxInterval.
MaxInterval == 1

\* Ticks of the interval timer that can be due and not yet taken.
MaxDue == 1
\* Largest db_batch_size of the configuration of SpecRpc.
MaxLiveBatchSize == 2
\* Ranges that may wait in the gap channel when a further scan is requested.
MaxWaiting == 2
\* Largest value of the scaled-down byte standing for 0xff.
MaxByte == 3
\* Bytes of the scaled-down unsigned word standing for U256.
U256Len == 2

(***************************************************************************)
(* Small helpers on sequences.                                             *)
(***************************************************************************)
Elems(s) == {s[i] : i \in DOMAIN s}

RECURSIVE SeqsUpTo(_, _)
SeqsUpTo(S, n) ==
    IF n = 0 THEN {<<>>}
    ELSE LET shorter == SeqsUpTo(S, n - 1)
         IN  shorter \cup {Append(s, x) : s \in {t \in shorter : Len(t) = n - 1}, x \in S}

(***************************************************************************)
(* Events, block metadata and batches.                                     *)
(***************************************************************************)
\* The BlockBatch vectors, in the order insert_many_blocks_inner writes them.
StatementOrder ==
    << "delegate", "undelegate", "withdraw", "claim_rewards",
       "validator_rewarded", "epoch_changed", "validator_created",
       "validator_status_changed", "commission_changed" >>

StakingEventType == Elems(StatementOrder)

Tables == StakingEventType \cup {"blocks"}

BlockMeta(n, h) == [block_number |-> n, block_hash |-> h, block_timestamp |-> n]

\* A staking event: its variant, its validator id (val_id or validator_id; 0
\* for EpochChanged), one payload value, and the block and tx envelope.
StakingEvent(t, id, amt, n, tx, txi) ==
    [ type |-> t, id |-> id, amount |-> amt,
      block_meta |-> BlockMeta(n, n),
      tx_meta |-> [transaction_hash |-> tx, transaction_index |-> txi] ]

\* BlockBatch::new
NewBatch == [f \in Tables |-> <<>>]

\* BlockBatch::add_event
add_event(batch, event) ==
    [batch EXCEPT ![event.type] = Append(@, event)]

\* BlockBatch::add_block_meta (the vector is the "blocks" field of the model)
add_block_meta(batch, meta) ==
    [batch EXCEPT !["blocks"] = Append(@, meta)]

RECURSIVE add_events(_, _)
add_events(batch, events) ==
    IF events = <<>> THEN batch
    ELSE add_events(add_event(batch, Head(events)), Tail(events))

(***************************************************************************)
(* The store: rows, unique indexes and INSERT ... ON CONFLICT DO NOTHING.  *)
(***************************************************************************)
\* The column that holds the validator id in a variant's table.
IdColumn(t) ==
    IF t \in {"delegate", "undelegate", "withdraw", "claim_rewards"} THEN "val_id"
    ELSE "validator_id"

\* Mutant: the unsigned value is bound as it is.
as_numeric(v) == v

\* `v as i64` on an unsigned word of MaxWord + 1 values: the upper half of the
\* words is read as two's complement and comes out negative.
as_i64(v) == IF v > MaxWord \div 2 THEN v - (MaxWord + 1) ELSE v

\* The row an event is bound to (push_bind): payload columns and the
\* denormalised block_number, transaction_hash, transaction_index. The
\* integer columns are bound `as i64`, the amount as the decimal it is.
EventRow(e) ==
    IF e.type = "epoch_changed"
    THEN [ amount |-> e.amount, block_number |-> as_i64(e.block_meta.block_number),
           transaction_hash |-> e.tx_meta.transaction_hash,
           transaction_index |-> as_i64(e.tx_meta.transaction_index) ]
    ELSE (IdColumn(e.type) :> as_i64(e.id)) @@
         [ amount |-> e.amount, block_number |-> as_i64(e.block_meta.block_number),
           transaction_hash |-> e.tx_meta.transaction_hash,
           transaction_index |-> as_i64(e.tx_meta.transaction_index) ]

\* The row a BlockMeta is bound to.
BlockRow(meta) ==
    [ block_number |-> as_i64(meta.block_number), block_hash |-> meta.block_hash,
      block_timestamp |-> as_i64(meta.block_timestamp) ]

\* The unique index of each table (schema migrations; spec section 3).
UniqueIndex(t) ==
    IF t = "blocks" THEN {"block_number"}
    ELSE IF t \in {"delegate", "undelegate", "withdraw", "claim_rewards"}
         THEN {"val_id", "transaction_hash"}
    ELSE IF t \in {"validator_rewarded", "validator_created", "epoch_changed"}
         THEN {"transaction_hash"}
    ELSE {"validator_id", "transaction_hash"}

\* The ON CONFLICT target of the batch statements.
BatchConflictTarget(t) ==
    IF t = "blocks" THEN {"block_number"}
    ELSE IF t \in {"delegate", "undelegate", "withdraw", "claim_rewards"}
         THEN {"val_id", "transaction_hash"}
    ELSE IF t \in {"validator_rewarded", "validator_created", "epoch_changed"}
         THEN {"transaction_hash"}
    ELSE {"validator_id", "transaction_hash"}

\* The ON CONFLICT target of the single-event statements.
SingleConflictTarget(t) ==
    IF t = "blocks" THEN {"block_number"} ELSE {"transaction_hash"}

Proj(row, cols) == [c \in cols |-> row[c]]

\* Mutant: rows of one transaction conflict whatever their validator id.
ConflictsOnHash(table, row, cols) ==
    LET c == IF "transaction_hash" \in cols THEN {"transaction_hash"} ELSE cols
    IN  \E r \in BagToSet(table) : Proj(r, c) = Proj(row, c)

\* A row conflicts with a table (a bag of rows) on the columns cols.
Conflicts(table, row, cols) ==
    \E r \in BagToSet(table) : Proj(r, cols) = Proj(row, cols)

\* Mutant: a statement without the conflict check (a plain INSERT on a table
\* whose index is missing).
InsertRowNoCheck(table, row, cols) == table (+) SetToBag({row})

\* One row of INSERT ... ON CONFLICT (cols) DO NOTHING.
InsertRow(table, row, cols) ==
    IF Conflicts(table, row, cols) THEN table ELSE table (+) SetToBag({row})

RECURSIVE InsertRows(_, _, _)
\* A multi-row INSERT ... ON CONFLICT (cols) DO NOTHING: rows are taken in
\* order, a row conflicting with a stored or an earlier row is skipped.
InsertRows(table, rows, cols) ==
    IF rows = <<>> THEN table
    ELSE InsertRows(InsertRow(table, Head(rows), cols), Tail(rows), cols)

\* Executing the statement on table t: the new table, rows_affected, and
\* whether the statement raised an error (the conflict target names no unique
\* index of the table).
Execute(tbl, t, rows, target) ==
    IF target # UniqueIndex(t)
    THEN [table |-> tbl, rows_affected |-> 0, err |-> TRUE]
    ELSE LET new == InsertRows(tbl, rows, target)
         IN  [ table |-> new,
               rows_affected |-> BagCardinality(new) - BagCardinality(tbl),
               err |-> FALSE ]

(***************************************************************************)
(* The batch transaction (db/repository_batch.rs).                         *)
(***************************************************************************)
\* The await points of insert_many_blocks_inner, in order.
Steps == <<"begin">> \o StatementOrder \o <<"blocks", "commit">>

EmptyCounts == [t \in {} |-> <<0, 0>>]

\* Mutant: the statement reports every row of the batch as inserted.
insert_events_in_tx_all_inserted(tx, t, events) ==
    IF events = <<>>
    THEN [tx |-> tx, res |-> <<0, 0>>, err |-> FALSE]
    ELSE LET r == Execute(tx[t], t, [i \in DOMAIN events |-> EventRow(events[i])],
                          BatchConflictTarget(t))
         IN  [ tx |-> [tx EXCEPT ![t] = r.table],
               res |-> <<Len(events), Len(events)>>,
               err |-> r.err ]

\* insert_<variant>_events_in_tx: (rows_affected, total), or (0, 0) without
\* touching the store when the vector is empty.
insert_events_in_tx(tx, t, events) ==
    IF events = <<>>
    THEN [tx |-> tx, res |-> <<0, 0>>, err |-> FALSE]
    ELSE LET r == Execute(tx[t], t, [i \in DOMAIN events |-> EventRow(events[i])],
                          BatchConflictTarget(t))
         IN  [ tx |-> [tx EXCEPT ![t] = r.table],
               res |-> <<r.rows_affected, Len(events)>>,
               err |-> r.err ]

\* Mutant: ON CONFLICT (block_number) DO UPDATE: the row of a block that is
\* inserted again takes the hash and timestamp of the last insert.
insert_blocks_in_tx_do_update(tx, metas) ==
    LET nums == {metas[i].block_number : i \in DOMAIN metas}
        kept == {r \in BagToSet(tx["blocks"]) : r.block_number \notin nums}
        last(n) == metas[CHOOSE i \in DOMAIN metas :
                           /\ metas[i].block_number = n
                           /\ \A j \in DOMAIN metas :
                                 metas[j].block_number = n => j <= i]
    IN  [ tx |-> [tx EXCEPT !["blocks"] =
                     SetToBag(kept \cup {BlockRow(last(n)) : n \in nums})],
          res |-> Len(metas),
          err |-> FALSE ]

\* insert_blocks_in_tx
insert_blocks_in_tx(tx, metas) ==
    IF metas = <<>>
    THEN [tx |-> tx, res |-> 0, err |-> FALSE]
    ELSE LET r == Execute(tx["blocks"], "blocks",
                          [i \in DOMAIN metas |-> BlockRow(metas[i])],
                          BatchConflictTarget("blocks"))
         IN  [ tx |-> [tx EXCEPT !["blocks"] = r.table],
               res |-> r.rows_affected,
               err |-> r.err ]

\* The steps at which a statement is really sent to the store for this batch
\* (an empty vector returns before any await).
AwaitPoints(batch) ==
    {k \in DOMAIN Steps :
        \/ Steps[k] \in {"begin", "commit"}
        \/ Steps[k] \in Tables /\ batch[Steps[k]] # <<>>}

RECURSIVE RunFrom(_, _, _, _, _)
\* The statements from step k on, executed on the transaction tx; the step
\* `fault` (0: none) is the one that fails or at which the timeout cancels.
RunFrom(tx, batch, k, fault, counts) ==
    IF k = fault THEN [tx |-> tx, counts |-> counts, failed |-> TRUE]
    ELSE IF Steps[k] = "commit" THEN [tx |-> tx, counts |-> counts, failed |-> FALSE]
    ELSE IF Steps[k] = "blocks"
    THEN LET r == insert_blocks_in_tx(tx, batch["blocks"])
         IN  IF r.err THEN [tx |-> r.tx, counts |-> counts, failed |-> TRUE]
             ELSE RunFrom(r.tx, batch, k + 1, fault, counts)
    ELSE LET t == Steps[k]
             r == insert_events_in_tx(tx, t, batch[t])
         IN  IF r.err THEN [tx |-> r.tx, counts |-> counts, failed |-> TRUE]
             ELSE RunFrom(r.tx, batch, k + 1, fault, counts @@ (t :> r.res))

\* Mutant: the statements run on the pool (autocommit) and stay when the
\* request fails.
RollbackKeepsWrites(pool, tx) == tx

\* What the store holds after a transaction is dropped without commit.
Rollback(pool, tx) == pool

\* insert_many_blocks_inner, with the fault the environment injects.
insert_many_blocks_inner(pool, batch, fault) ==
    IF batch["blocks"] = <<>>
    THEN [pool |-> pool, ok |-> TRUE, result |-> EmptyCounts]
    ELSE IF fault = 1
    THEN [pool |-> pool, ok |-> FALSE, result |-> EmptyCounts]
    ELSE LET run == RunFrom(pool, batch, 2, fault, EmptyCounts)
         IN  IF run.failed
             THEN [pool |-> Rollback(pool, run.tx), ok |-> FALSE, result |-> EmptyCounts]
             ELSE [pool |-> run.tx, ok |-> TRUE, result |-> run.counts]

\* insert_blocks: the timeout wraps the whole transaction; kind tells whether
\* the injected fault is the timeout or a store error.
insert_blocks(pool, batch, fault, kind) ==
    LET r == insert_many_blocks_inner(pool, batch, fault)
    IN  [ pool |-> r.pool, result |-> r.result,
          status |-> IF r.ok THEN "Ok"
                     ELSE IF kind = "timeout" THEN "PoolTimedOut" ELSE "Err" ]

(***************************************************************************)
(* Gap detection (db/repository.rs).                                       *)
(***************************************************************************)
StoredBlockNumbers(pool) == {r.block_number : r \in BagToSet(pool["blocks"])}

\* NULL: a value no BIGINT column of the scaled-down store holds.
Null == 0 - (MaxWord + 2)

\* LEAD(block_number) OVER (ORDER BY block_number).
Lead(S, n) ==
    IF \E m \in S : m > n
    THEN CHOOSE m \in S : m > n /\ \A x \in S : x > n => m <= x
    ELSE Null

RECURSIVE SortedSeq(_)
SortedSeq(S) ==
    IF S = {} THEN <<>>
    ELSE LET m == CHOOSE x \in S : \A y \in S : x <= y
         IN  <<m>> \o SortedSeq(S \ {m})

\* The rows (gap_start, gap_end) the query returns, in block order.
GapRows(pool) ==
    LET S == StoredBlockNumbers(pool)
        all == [i \in DOMAIN SortedSeq(S) |->
                  [gap_start |-> SortedSeq(S)[i] + 1,
                   gap_end |-> Lead(S, SortedSeq(S)[i]) - 1]]
    IN  SelectSeq(all, LAMBDA r : Lead(S, r.gap_start - 1) # Null /\ r.gap_end >= r.gap_start)

\* The Range built from a row: start = gap_start, end = gap_end.
RowToRange(row) == [start |-> row.gap_start, end |-> row.gap_end]

\* u64::try_from(..).unwrap() on gap_start and gap_end of every row: a
\* negative value makes the call panic.
Unwraps(pool) ==
    \A i \in DOMAIN GapRows(pool) :
        GapRows(pool)[i].gap_start >= 0 /\ GapRows(pool)[i].gap_end >= 0

\* Mutant: a range is returned for every stored block that has a successor.
get_block_gaps_unfiltered(pool) ==
    LET S == StoredBlockNumbers(pool)
    IN  [i \in 1..(Len(SortedSeq(S)) - 1) |->
            [start |-> SortedSeq(S)[i] + 1, end |-> SortedSeq(S)[i + 1] - 1]]

\* get_block_gaps, when it returns
get_block_gaps(pool) ==
    [i \in DOMAIN GapRows(pool) |-> RowToRange(GapRows(pool)[i])]

(***************************************************************************)
(* chunk_range (lib.rs), on unsigned words of MaxWord + 1 values.          *)
(***************************************************************************)
Word == 0..MaxWord

Min(a, b) == IF a <= b THEN a ELSE b

RECURSIVE ChunkLoop(_, _, _, _, _, _)
\* The while loop of chunk_range. chunk_start + chunk_size is an unsigned
\* addition: beyond MaxWord it panics when the build checks overflow and wraps
\* otherwise. A loop that has run MaxWord + 2 times has met a chunk_start
\* twice and never ends.
ChunkLoop(chunk_start, end, chunk_size, chunks, checks, n) ==
    IF ~(chunk_start < end) THEN [status |-> "returns", chunks |-> chunks]
    ELSE IF n > MaxWord + 1 THEN [status |-> "diverges", chunks |-> <<>>]
    ELSE IF chunk_start + chunk_size > MaxWord /\ checks
    THEN [status |-> "panics", chunks |-> <<>>]
    ELSE LET sum == (chunk_start + chunk_size) % (MaxWord + 1)
             chunk_end == Min(sum, end)
         IN  ChunkLoop(chunk_end, end, chunk_size,
                       Append(chunks, [start |-> chunk_start, end |-> chunk_end]),
                       checks, n + 1)

\* chunk_range(range, chunk_size); checks: the build has overflow checks.
\* The capacity (end - start) / chunk_size is computed first and panics on a
\* zero chunk_size.
chunk_range(range, chunk_size, checks) ==
    IF chunk_size = 0 THEN [status |-> "panics", chunks |-> <<>>]
    ELSE ChunkLoop(range.start, range.end, chunk_size, <<>>, checks, 0)

(***************************************************************************)
(* DbWriter: one iteration of process_db_requests (lib.rs).                *)
(***************************************************************************)
InsertRequest(batch) == [kind |-> "InsertCompleteBlocks", batch |-> batch]

GetBlockGapsRequest == [kind |-> "GetBlockGaps", batch |-> NewBatch]

\* Mutant: a timeout is reported as any other failure.
InsertMetricNoTimeout(status) ==
    IF status = "Ok" THEN "InsertedEvents" ELSE "FailedToInsert"

\* The metric sent for an insert outcome.
InsertMetric(status) ==
    IF status = "Ok" THEN "InsertedEvents"
    ELSE IF status = "PoolTimedOut" THEN "InsertTimeout"
    ELSE "FailedToInsert"

\* Mutant: the channel holds one request; a sender waits while it is full.
BoundedSend(q) == Len(q) < 1

\* mpsc::unbounded_channel(): a send never waits, however many requests
\* the receiver has not taken yet.
UnboundedSend(q) == TRUE

\* A Metric value. counts is the payload of InsertedEvents; req, fault and
\* cause are not sent: they record which request the metric answers, and where
\* and by what its transaction was interrupted.
Metric(kind, counts, req, fault) ==
    [kind |-> kind, counts |-> counts, req |-> req, fault |-> fault,
     cause |-> "none"]

\* Metrics are consumed before MaxMetrics of them wait: a task about to send
\* one is scheduled after the consumer has made room.
MetricsRoom == Len(metrics_queue) < MaxMetrics

\* The db channel once its receiver is dropped: no request is taken from it
\* any more.
Closed == [kind |-> "Closed", batch |-> NewBatch]

\* The GetBlockGaps arm; the query itself may fail (ok = FALSE). A panic in
\* get_block_gaps ends the DbWriter task, which drops the receiver.
HandleGetBlockGaps(req) ==
    /\ req.kind = "GetBlockGaps"
    /\ \E ok \in BOOLEAN :
          IF ok /\ ~Unwraps(store)
          THEN /\ db_queue' = <<Closed>>
               /\ gap_queue' = gap_queue
          ELSE /\ db_queue' = Tail(db_queue)
               /\ gap_queue' = IF ok THEN gap_queue \o get_block_gaps(store)
                                ELSE gap_queue
    /\ UNCHANGED <<store, metrics_queue>>

\* The InsertCompleteBlocks arm.
HandleInsertCompleteBlocks(req) ==
    /\ req.kind = "InsertCompleteBlocks"
    /\ \E fault \in {0} \cup AwaitPoints(req.batch), kind \in {"error", "timeout"} :
          /\ fault = 0 => kind = "error"
          /\ LET r == insert_blocks(store, req.batch, fault, kind)
             IN  /\ store' = r.pool
                 /\ metrics_queue' =
                       Append(metrics_queue,
                              [Metric(InsertMetric(r.status), r.result, req, fault)
                                  EXCEPT !.cause = IF r.status = "Ok" THEN "none" ELSE kind])
    /\ UNCHANGED gap_queue

process_get_block_gaps ==
    /\ db_queue # <<>>
    /\ HandleGetBlockGaps(Head(db_queue))
    /\ UNCHANGED <<harnessVars, pipeVars>>

\* Mutant: the request sent last is served first.
process_insert_complete_blocks_lifo ==
    /\ db_queue # <<>>
    /\ MetricsRoom
    /\ HandleInsertCompleteBlocks(db_queue[Len(db_queue)])
    /\ db_queue' = SubSeq(db_queue, 1, Len(db_queue) - 1)
    /\ UNCHANGED <<harnessVars, pipeVars>>

process_insert_complete_blocks ==
    /\ db_queue # <<>>
    /\ MetricsRoom
    /\ HandleInsertCompleteBlocks(Head(db_queue))
    /\ db_queue' = Tail(db_queue)
    /\ UNCHANGED <<harnessVars, pipeVars>>

\* while let Some(req) = rx.recv().await { match req { ... } }
process_db_requests == process_get_block_gaps \/ process_insert_complete_blocks

(***************************************************************************)
(* The single-event path (db/repository.rs): statements on the pool, each  *)
(* committed on its own.                                                   *)
(***************************************************************************)
\* ensure_block as a store transformer.
EnsureBlock(pool, meta) ==
    LET r == Execute(pool["blocks"], "blocks", <<BlockRow(meta)>>, {"block_number"})
    IN  [pool |-> [pool EXCEPT !["blocks"] = r.table], err |-> r.err]

\* insert_<variant>_event
InsertSingle(pool, e) ==
    LET r == Execute(pool[e.type], e.type, <<EventRow(e)>>, SingleConflictTarget(e.type))
    IN  [ pool |-> [pool EXCEPT ![e.type] = r.table],
          rows_affected |-> r.rows_affected, err |-> r.err ]

\* insert_staking_event: the event statement, then ensure_block; io_fault is
\* the statement (1 or 2) at which the connection fails, 0 for none. The
\* report keeps the call's event, its result and the injected fault.
insert_staking_event(e, io_fault) ==
    LET ins == InsertSingle(store, e)
    IN  IF io_fault = 1 \/ ins.err
        THEN /\ store' = store
             /\ single_report' = [event |-> e, result |-> "Err", rows_affected |-> 0,
                                  io_fault |-> io_fault]
        ELSE IF io_fault = 2
        THEN /\ store' = ins.pool
             /\ single_report' = [event |-> e, result |-> "Err",
                                  rows_affected |-> ins.rows_affected,
                                  io_fault |-> io_fault]
        ELSE /\ store' = EnsureBlock(ins.pool, e.block_meta).pool
             /\ single_report' = [event |-> e, result |-> "Ok",
                                  rows_affected |-> ins.rows_affected,
                                  io_fault |-> io_fault]

\* ensure_block called on its own (as tests/database.rs does).
ensure_block(meta) ==
    /\ store' = EnsureBlock(store, meta).pool
    /\ UNCHANGED <<db_queue, metrics_queue, gap_queue, harnessVars, pipeVars>>

(***************************************************************************)
(* Logs and the decoder (events.rs).                                       *)
(***************************************************************************)
\* U256::as_le_bytes: the U256Len bytes of the value, least significant first.
as_le_bytes(value) ==
    [i \in 1..U256Len |-> (value \div ((MaxByte + 1) ^ (i - 1))) % (MaxByte + 1)]

RECURSIVE from_bytes_be(_)
\* Mutant: the bytes are read most significant first.
from_bytes_be(bytes) ==
    IF bytes = <<>> THEN 0
    ELSE Head(bytes) * ((MaxByte + 1) ^ (Len(bytes) - 1)) + from_bytes_be(Tail(bytes))

RECURSIVE from_bytes_le(_)
\* BigInt::from_bytes_le(Sign::Plus, bytes)
from_bytes_le(bytes) ==
    IF bytes = <<>> THEN 0
    ELSE Head(bytes) + (MaxByte + 1) * from_bytes_le(Tail(bytes))

\* u256_to_bigdecimal
u256_to_bigdecimal(value) == from_bytes_le(as_le_bytes(value))

\* A log of the staking address. form tells whether the RPC reply carries
\* every required field and a payload that decodes; topic0 is the variant
\* whose signature hash it carries, or "other".
Log(n, tx, txi, li, topic, id, amt, form) ==
    [ block_number |-> n, transaction_hash |-> tx, transaction_index |-> txi,
      log_index |-> li, topic0 |-> topic, id |-> id, amount |-> amt, form |-> form ]

NoEvent == StakingEvent("delegate", 0, 0, 0, "none", 0)

\* Mutant: a log of any topic is decoded; an unknown one as a Delegate.
extract_event_any_topic(log) ==
    IF log.form # "ok" THEN [tag |-> "Err", event |-> NoEvent]
    ELSE [ tag |-> "Some",
           event |-> StakingEvent(IF log.topic0 \in StakingEventType THEN log.topic0
                                  ELSE "delegate",
                                  log.id, u256_to_bigdecimal(log.amount),
                                  log.block_number,
                                  log.transaction_hash, log.transaction_index) ]

\* extract_event: Err on a missing field, None on an unknown topic, Err on a
\* payload that does not decode, the event otherwise.
extract_event(log) ==
    IF log.form = "missing_field" THEN [tag |-> "Err", event |-> NoEvent]
    ELSE IF log.topic0 \notin StakingEventType THEN [tag |-> "None", event |-> NoEvent]
    ELSE IF log.form = "bad_payload" THEN [tag |-> "Err", event |-> NoEvent]
    ELSE [ tag |-> "Some",
           event |-> StakingEvent(log.topic0, log.id, u256_to_bigdecimal(log.amount),
                                  log.block_number,
                                  log.transaction_hash, log.transaction_index) ]

(***************************************************************************)
(* The chain and the RPC (provider.rs).                                    *)
(***************************************************************************)
RECURSIVE Concat(_)
Concat(ss) == IF ss = <<>> THEN <<>> ELSE Head(ss) \o Concat(Tail(ss))

\* historical_logs(range): get_logs from range.start to range.end - 1
\* (saturating), inclusive; the node answers with the logs of the blocks it has.
HistoricalSpan(range) ==
    [from |-> range.start, to |-> IF range.end = 0 THEN 0 ELSE range.end - 1]

LogsIn(span) ==
    Concat([i \in 1..head |->
              IF span.from <= i /\ i <= span.to THEN chain[i] ELSE <<>>])

\* A new block: its logs go to the open subscription.
ProduceBlock ==
    /\ head < Len(chain)
    /\ head' = head + 1
    /\ stream' = IF live.pc = "stream" THEN stream \o chain[head + 1] ELSE stream
    /\ UNCHANGED <<store, db_queue, metrics_queue, gap_queue, harnessVars>>
    /\ UNCHANGED <<chain, config, live, gaps, scans>>

(***************************************************************************)
(* The metrics channel and its consumer (metrics.rs).                      *)
(***************************************************************************)
PlainMetric(kind) == Metric(kind, EmptyCounts, GetBlockGapsRequest, 0)

process_metrics ==
    /\ metrics_queue # <<>>
    /\ metrics_queue' = Tail(metrics_queue)
    /\ UNCHANGED <<store, db_queue, gap_queue, harnessVars, pipeVars>>

\* Option values.
None == <<>>

Some(x) == <<x>>

(***************************************************************************)
(* ReconnectProvider (provider.rs). The URLs of the configuration are       *)
(* numbered 0 .. NumUrls - 1; a provider is None or Some(url).              *)
(***************************************************************************)
\* Mutant: every attempt goes to the first URL.
ConnectTargetFirst(attempt) == 0

\* let url = &self.urls[attempt % self.urls.len()]
ConnectTarget(attempt) == attempt % NumUrls

\* What the handshake with a URL can do within the connection timeout. The
\* endpoints of config.down accept no connection.
ConnectOutcomes(url) ==
    IF url \in config.down
    THEN {"handshake_error", "timeout"}
    ELSE {"accepted", "handshake_error", "timeout"}

\* An endpoint that is not down fails a handshake MaxAttempts times at most.
MayConnect(attempts, outcome) ==
    \/ outcome = "accepted"
    \/ ConnectTarget(attempts) \in config.down
    \/ attempts < MaxAttempts

\* Mutant: the connection timeout is answered with RpcConnRefused.
connect_refused_on_timeout(provider, attempt, outcome) ==
    IF provider # None
    THEN [result |-> "Ok", provider |-> provider]
    ELSE IF outcome = "accepted"
    THEN [result |-> "Ok", provider |-> Some(ConnectTarget(attempt))]
    ELSE [result |-> "RpcConnRefused", provider |-> None]

\* connect(attempt): Ok at once on a provider that is already connected,
\* else the handshake with the URL of this attempt.
connect(provider, attempt, outcome) ==
    IF provider # None
    THEN [result |-> "Ok", provider |-> provider]
    ELSE IF outcome = "accepted"
    THEN [result |-> "Ok", provider |-> Some(ConnectTarget(attempt))]
    ELSE IF outcome = "handshake_error"
    THEN [result |-> "RpcConnRefused", provider |-> None]
    ELSE [result |-> "RpcTimeout", provider |-> None]

\* The metric of a failed connect; its req field records the URL tried and
\* what the handshake did.
ConnectMetric(result, url, outcome) ==
    Metric(result, EmptyCounts,
           [kind |-> "connect", batch |-> NewBatch, url |-> url, outcome |-> outcome],
           0)

(***************************************************************************)
(* LiveIngestor: process_live_blocks (main.rs).                            *)
(***************************************************************************)
\* reconnect_provider.connect(attempts) in the connect loop.
LiveConnect ==
    /\ live.pc = "connect"
    /\ \E outcome \in ConnectOutcomes(ConnectTarget(live.attempts)) :
          LET r == connect(live.provider, live.attempts, outcome)
          IN  /\ MayConnect(live.attempts, outcome)
              /\ IF r.result = "Ok"
                 THEN /\ live' = [live EXCEPT !.pc = "subscribe",
                                              !.provider = r.provider]
                      /\ UNCHANGED metrics_queue
                 ELSE /\ MetricsRoom
                      /\ metrics_queue' =
                            Append(metrics_queue,
                                   ConnectMetric(r.result, ConnectTarget(live.attempts),
                                                 outcome))
                      /\ live' = [live EXCEPT !.attempts = @ + 1]
    /\ UNCHANGED <<store, db_queue, gap_queue, harnessVars>>
    /\ UNCHANGED <<chain, head, config, stream, gaps, scans>>

\* Mutant: stream_events subscribes on a copy of the provider and leaves the
\* provider in place.
LiveSubscribeKeepsProvider ==
    /\ live.pc = "subscribe"
    /\ \/ live' = [live EXCEPT !.pc = "stream", !.subscription = live.provider]
       \/ live' = [live EXCEPT !.pc = "connect"]
    /\ stream' = <<>>
    /\ UNCHANGED <<store, db_queue, metrics_queue, gap_queue, harnessVars>>
    /\ UNCHANGED <<chain, head, config, gaps, scans>>

\* client.stream_events(): the provider is taken; the subscription opens
\* on it, or fails and the loop continues.
LiveSubscribe ==
    /\ live.pc = "subscribe"
    /\ \/ live' = [live EXCEPT !.pc = "stream", !.provider = None,
                                !.subscription = live.provider]
       \/ live' = [live EXCEPT !.pc = "connect", !.provider = None]
    /\ stream' = <<>>
    /\ UNCHANGED <<store, db_queue, metrics_queue, gap_queue, harnessVars>>
    /\ UNCHANGED <<chain, head, config, gaps, scans>>

\* Mutant: a sealed block is recorded by its BlockMeta alone; its events are
\* dropped with the buffer.
LiveAfterEventMetaOnly(l, event) ==
    LET n == event.block_meta.block_number
        sealing == l.current_block_meta # None
                   /\ l.current_block_meta[1].block_number # n
    IN  [ l EXCEPT
            !.start_block = None,
            !.batch = IF sealing THEN add_block_meta(l.batch, l.current_block_meta[1])
                      ELSE l.batch,
            !.block_count = IF sealing THEN l.block_count + 1 ELSE l.block_count,
            !.current_block_buffer =
                IF sealing THEN <<event>> ELSE Append(l.current_block_buffer, event),
            !.current_block_meta = Some(event.block_meta) ]

\* Mutant: every event seals the block being accumulated.
LiveAfterEventSealsAlways(l, event) ==
    LET sealing == l.current_block_meta # None
        sealed == add_events(add_block_meta(l.batch, l.current_block_meta[1]),
                             l.current_block_buffer)
    IN  [ l EXCEPT
            !.start_block = None,
            !.batch = IF sealing THEN sealed ELSE l.batch,
            !.block_count = IF sealing THEN l.block_count + 1 ELSE l.block_count,
            !.current_block_buffer =
                IF sealing THEN <<event>> ELSE Append(l.current_block_buffer, event),
            !.current_block_meta = Some(event.block_meta) ]

\* The locals after the Ok(Some(event)) arm, before the batch is handed off.
LiveAfterEvent(l, event) ==
    LET n == event.block_meta.block_number
        sealing == l.current_block_meta # None
                   /\ l.current_block_meta[1].block_number # n
        sealed == add_events(add_block_meta(l.batch, l.current_block_meta[1]),
                             l.current_block_buffer)
    IN  [ l EXCEPT
            !.start_block = None,
            !.batch = IF sealing THEN sealed ELSE l.batch,
            !.block_count = IF sealing THEN l.block_count + 1 ELSE l.block_count,
            !.current_block_buffer =
                IF sealing THEN <<event>> ELSE Append(l.current_block_buffer, event),
            !.current_block_meta = Some(event.block_meta) ]

\* Mutant: the range is sent whatever the block of the first event.
StartupGapAlways(start_block, n) ==
    IF start_block # None
    THEN << [start |-> start_block[1], end |-> n] >>
    ELSE << >>

\* if let Some(start) = start_block { if event_block_num > start { send } }:
\* the ranges the first decoded event sends to the gap channel.
StartupGap(start_block, n) ==
    IF start_block # None /\ n > start_block[1]
    THEN << [start |-> start_block[1], end |-> n] >>
    ELSE << >>

\* One item of the stream: the body of the while let loop.
LiveEvent ==
    /\ live.pc = "stream"
    /\ stream # <<>>
    /\ stream' = Tail(stream)
    /\ LET x == extract_event(Head(stream))
           n == x.event.block_meta.block_number
           l == LiveAfterEvent(live, x.event)
       IN  IF x.tag # "Some"
           THEN UNCHANGED <<live, gap_queue, db_queue>>
           ELSE /\ gap_queue' = gap_queue \o StartupGap(live.start_block, n)
                /\ IF l.block_count >= config.db_batch_size
                   THEN /\ UnboundedSend(db_queue)
                        /\ db_queue' = Append(db_queue, InsertRequest(l.batch))
                        /\ live' = [l EXCEPT !.batch = NewBatch, !.block_count = 0]
                   ELSE /\ live' = l
                        /\ UNCHANGED db_queue
    /\ UNCHANGED <<store, metrics_queue, harnessVars>>
    /\ UNCHANGED <<chain, head, config, gaps, scans>>

\* Mutant: no watchdog; a stream ends only by closing with logs pending.
LiveStreamEndOnCloseOnly ==
    /\ live.pc = "stream"
    /\ stream # <<>>
    /\ MetricsRoom
    /\ stream' = <<>>
    /\ live' = [live EXCEPT !.pc = "connect", !.subscription = None]
    /\ metrics_queue' = Append(metrics_queue, PlainMetric("RpcTimeout"))
    /\ UNCHANGED <<store, db_queue, gap_queue, harnessVars>>
    /\ UNCHANGED <<chain, head, config, gaps, scans>>

\* Mutant: the batch being filled is handed to DbWriter when the stream ends.
LiveStreamEndFlushes ==
    /\ live.pc = "stream"
    /\ MetricsRoom
    /\ stream' = <<>>
    /\ live' = [live EXCEPT !.pc = "connect", !.subscription = None,
                            !.batch = NewBatch, !.block_count = 0]
    /\ db_queue' = IF live.batch = NewBatch THEN db_queue
                   ELSE Append(db_queue, InsertRequest(live.batch))
    /\ metrics_queue' = Append(metrics_queue, PlainMetric("RpcTimeout"))
    /\ UNCHANGED <<store, gap_queue, harnessVars>>
    /\ UNCHANGED <<chain, head, config, gaps, scans>>

\* The stream ends: the watchdog fires on a silent stream, or the
\* subscription closes with logs still undelivered, which are lost.
\* RpcTimeout is recorded and the outer loop reconnects with its locals kept.
LiveStreamEnd ==
    /\ live.pc = "stream"
    /\ MetricsRoom
    /\ stream' = <<>>
    /\ live' = [live EXCEPT !.pc = "connect", !.subscription = None]
    /\ metrics_queue' = Append(metrics_queue, PlainMetric("RpcTimeout"))
    /\ UNCHANGED <<store, db_queue, gap_queue, harnessVars>>
    /\ UNCHANGED <<chain, head, config, gaps, scans>>

(***************************************************************************)
(* GapBackfiller: process_gaps_task and process_historical_logs (main.rs). *)
(***************************************************************************)
\* logs.sort_by_key(|l| (l.block_number, l.transaction_index, l.log_index))
LogBefore(a, b) ==
    \/ a.block_number < b.block_number
    \/ /\ a.block_number = b.block_number
       /\ \/ a.transaction_index < b.transaction_index
          \/ /\ a.transaction_index = b.transaction_index
             /\ a.log_index <= b.log_index

RECURSIVE InsertSorted(_, _)
InsertSorted(sorted, x) ==
    IF sorted = <<>> THEN <<x>>
    ELSE IF LogBefore(Head(sorted), x) THEN <<Head(sorted)>> \o InsertSorted(Tail(sorted), x)
    ELSE <<x>> \o sorted

RECURSIVE SortLogs(_)
\* A stable sort by the key.
SortLogs(logs) ==
    IF logs = <<>> THEN <<>>
    ELSE InsertSorted(SortLogs(SubSeq(logs, 1, Len(logs) - 1)), logs[Len(logs)])

RECURSIVE DecodeAll(_)
\* The for loop over the logs: the events of the logs that decode to one, or
\* Err at the first log that fails to decode.
DecodeAll(logs) ==
    IF logs = <<>> THEN [ok |-> TRUE, events |-> <<>>]
    ELSE LET x == extract_event(Head(logs))
             rest == DecodeAll(Tail(logs))
         IN  IF x.tag = "Err" \/ ~rest.ok THEN [ok |-> FALSE, events |-> <<>>]
             ELSE IF x.tag = "None" THEN rest
             ELSE [ok |-> TRUE, events |-> <<x.event>> \o rest.events]

RECURSIVE BatchByBlock(_, _, _)
\* The blocks in increasing number, each with its meta and then its events.
BatchByBlock(batch, events, numbers) ==
    IF numbers = <<>> THEN batch
    ELSE LET mine == SelectSeq(events,
                               LAMBDA e : e.block_meta.block_number = Head(numbers))
         IN  BatchByBlock(add_events(add_block_meta(batch, mine[1].block_meta), mine),
                          events, Tail(numbers))

\* Mutant: a BlockMeta is added for every event.
process_historical_logs_meta_per_event(logs) ==
    LET d == DecodeAll(SortLogs(logs))
    IN  [ok |-> d.ok,
         batch |-> [add_events(NewBatch, d.events) EXCEPT
                       !["blocks"] = [i \in DOMAIN d.events |-> d.events[i].block_meta]]]

\* process_historical_logs: the batch it builds, or Err.
process_historical_logs(logs) ==
    LET d == DecodeAll(SortLogs(logs))
        numbers == SortedSeq({e.block_meta.block_number : e \in Elems(d.events)})
    IN  [ok |-> d.ok, batch |-> BatchByBlock(NewBatch, d.events, numbers)]

\* gap_rx.recv()
GapRecv ==
    /\ gaps.pc = "recv"
    /\ gap_queue # <<>>
    /\ gap_queue' = Tail(gap_queue)
    /\ gaps' = [gaps EXCEPT !.pc = "connect", !.range = Head(gap_queue),
                            !.chunks = <<>>, !.spans = {}]
    /\ UNCHANGED <<store, db_queue, metrics_queue, harnessVars>>
    /\ UNCHANGED <<chain, head, config, live, stream, scans>>

\* The connect loop, then chunk_range(range, chunk_size) as a release build
\* computes it.
GapConnect ==
    /\ gaps.pc = "connect"
    /\ \E outcome \in ConnectOutcomes(ConnectTarget(gaps.attempts)) :
          LET r == connect(gaps.provider, gaps.attempts, outcome)
              c == chunk_range(gaps.range, config.backfill_chunk_size, FALSE)
          IN  /\ MayConnect(gaps.attempts, outcome)
              /\ IF r.result = "Ok"
                 THEN /\ gaps' = [gaps EXCEPT
                                    !.pc = IF c.status # "returns" THEN "dead"
                                           ELSE IF c.chunks = <<>> THEN "recv"
                                           ELSE "chunks",
                                    !.chunks = c.chunks,
                                    !.provider = r.provider]
                      /\ UNCHANGED metrics_queue
                 ELSE /\ MetricsRoom
                      /\ metrics_queue' =
                            Append(metrics_queue,
                                   ConnectMetric(r.result, ConnectTarget(gaps.attempts),
                                                 outcome))
                      /\ gaps' = [gaps EXCEPT !.attempts = @ + 1]
    /\ UNCHANGED <<store, db_queue, gap_queue, harnessVars>>
    /\ UNCHANGED <<chain, head, config, live, stream, scans>>

\* Mutant: every chunk is counted as one block.
blocks_processed_one(chunk) == 1

\* let blocks_processed = chunk_range.end - chunk_range.start
blocks_processed(chunk) == chunk.end - chunk.start

\* One chunk: historical_logs, process_historical_logs, the metric. The call
\* to historical_logs may fail (cause "rpc"); process_historical_logs fails on
\* a reply it cannot decode (cause "decode").
GapChunk ==
    /\ gaps.pc = "chunks"
    /\ MetricsRoom
    /\ LET c == Head(gaps.chunks)
           span == HistoricalSpan(c)
           n == blocks_processed(c)
           res == process_historical_logs(LogsIn(span))
           rest == Tail(gaps.chunks)
       IN  /\ gaps' = [gaps EXCEPT !.chunks = rest,
                                   !.pc = IF rest = <<>> THEN "recv" ELSE "chunks",
                                   !.spans = @ \cup {span}]
           /\ \/ /\ UNCHANGED db_queue
                 /\ metrics_queue' = Append(metrics_queue,
                       [Metric("FailedToBackfill", EmptyCounts, GetBlockGapsRequest, n)
                           EXCEPT !.cause = "rpc"])
              \/ /\ ~res.ok
                 /\ UNCHANGED db_queue
                 /\ metrics_queue' = Append(metrics_queue,
                       [Metric("FailedToBackfill", EmptyCounts, GetBlockGapsRequest, n)
                           EXCEPT !.cause = "decode"])
              \/ /\ res.ok
                 /\ res.batch["blocks"] # <<>> => UnboundedSend(db_queue)
                 /\ db_queue' = IF res.batch["blocks"] # <<>>
                                THEN Append(db_queue, InsertRequest(res.batch))
                                ELSE db_queue
                 /\ metrics_queue' = Append(metrics_queue,
                       Metric("BackfilledBlocks", EmptyCounts, GetBlockGapsRequest, n))
    /\ UNCHANGED <<store, gap_queue, harnessVars>>
    /\ UNCHANGED <<chain, head, config, live, stream, scans>>

(***************************************************************************)
(* GapScanner: periodic_gap_check (main.rs).                               *)
(***************************************************************************)
\* interval(Duration::from_secs(interval_secs)): the timer of tokio. Its
\* first tick is due at once; a period of zero makes the call panic, and the
\* task ends before its first request.
ScannerStart(interval_secs) ==
    [ sent |-> 0, due |-> IF interval_secs = 0 THEN 0 ELSE 1,
      panicked |-> interval_secs = 0 ]

\* The interval is long: the first period ends at any time, every other one
\* when the work of the previous ticks is done.
ScanIdle == db_queue = <<>> /\ gap_queue = <<>> /\ gaps.pc = "recv"

\* One period of the timer elapses: one more tick is due.
IntervalElapses ==
    /\ ~scans.panicked
    /\ scans.due < MaxDue
    /\ scans.sent < MaxScans \/ ScanIdle
    /\ scans' = [scans EXCEPT !.due = @ + 1]
    /\ UNCHANGED <<store, db_queue, metrics_queue, gap_queue, harnessVars>>
    /\ UNCHANGED <<chain, head, config, live, stream, gaps>>

\* interval.tick().await completes on a tick that is due; the request
\* follows without another await.
periodic_gap_check ==
    /\ scans.due > 0
    /\ UnboundedSend(db_queue)
    /\ scans' = [scans EXCEPT !.due = @ - 1, !.sent = Min(@ + 1, MaxScans)]
    /\ db_queue' = Append(db_queue, GetBlockGapsRequest)
    /\ UNCHANGED <<store, metrics_queue, gap_queue, harnessVars>>
    /\ UNCHANGED <<chain, head, config, live, stream, gaps>>

(***************************************************************************)
(* Initial values.                                                         *)
(***************************************************************************)
EmptyStore == [t \in Tables |-> EmptyBag]

NoSingleReport ==
    [event |-> NoEvent, result |-> "none", rows_affected |-> 0, io_fault |-> 0]

NoChunkCall == [start |-> 0, end |-> 0, chunk_size |-> 1, checks |-> FALSE]

NoChunkResult == [status |-> "none", chunks |-> <<>>]

\* The locals of process_live_blocks at its start.
LiveStart(start_block) ==
    [ pc |-> "connect", start_block |-> start_block, current_block_meta |-> None,
      current_block_buffer |-> <<>>, batch |-> NewBatch, block_count |-> 0,
      attempts |-> 0, provider |-> None, subscription |-> None ]

\* periodic_gap_check before the task is spawned.
NoScanner == [sent |-> 0, due |-> 0, panicked |-> FALSE]

\* The locals of process_gaps_task at its start; spans records the spans
\* requested through historical_logs for the range being processed.
GapsStart ==
    [ pc |-> "recv", range |-> [start |-> 0, end |-> 0], chunks |-> <<>>,
      attempts |-> 0, spans |-> {}, provider |-> None ]

\* The harnesses leave the tasks of the pipeline unstarted.
PipeIdle ==
    /\ chain = <<>>
    /\ head = 0
    /\ config = [db_batch_size |-> 1, backfill_chunk_size |-> 1,
                 gap_check_interval_secs |-> 1, down |-> {}]
    /\ live = LiveStart(None)
    /\ stream = <<>>
    /\ gaps = GapsStart
    /\ scans = NoScanner

(***************************************************************************)
(* Spec: the whole indexer. The chain produces its blocks; LiveIngestor,   *)
(* GapScanner, GapBackfiller, DbWriter and the metrics consumer run        *)
(* concurrently on the channels.                                           *)
(***************************************************************************)
\* The logs of the staking address, block by block. Block 2 carries two
\* Delegate logs of one transaction; block 3 a log whose payload does not
\* decode next to a good one.
Chain ==
    << << Log(1, "t1", 0, 0, "delegate", 1, 1, "ok") >>,
       << Log(2, "t2", 0, 0, "delegate", 1, 1, "ok"),
          Log(2, "t2", 0, 1, "delegate", 2, 1, "ok") >>,
       << Log(3, "t3", 0, 0, "validator_rewarded", 1, 1, "bad_payload"),
          Log(3, "t4", 1, 1, "undelegate", 1, 1, "ok") >>,
       << Log(4, "t5", 0, 0, "delegate", 1, 1, "ok") >> >>

\* The staking events the chain emitted in block b, whatever the RPC makes
\* of their logs.
ChainEvents(b) ==
    { StakingEvent(l.topic0, l.id, l.amount, l.block_number, l.transaction_hash,
                   l.transaction_index) :
        l \in {x \in Elems(chain[b]) : x.topic0 \in StakingEventType} }

\* Mutant: SELECT MIN(block_number).
get_min_block_number(pool) ==
    IF StoredBlockNumbers(pool) = {} THEN None
    ELSE Some(CHOOSE m \in StoredBlockNumbers(pool) :
                 \A x \in StoredBlockNumbers(pool) : m <= x)

\* get_max_block_number: MAX(block_number), None on an empty table.
get_max_block_number(pool) ==
    IF StoredBlockNumbers(pool) = {} THEN None
    ELSE Some(CHOOSE m \in StoredBlockNumbers(pool) :
                 \A x \in StoredBlockNumbers(pool) : x <= m)

\* The store of an earlier run that indexed the first n blocks in full.
StoreUpTo(n) ==
    [t \in Tables |->
        IF t = "blocks" THEN SetToBag({BlockRow(BlockMeta(b, b)) : b \in 1..n})
        ELSE SetToBag({EventRow(e) : e \in {x \in UNION {ChainEvents(b) : b \in 1..n} :
                                              x.type = t}})]

Init ==
    /\ chain = Chain
    /\ head \in 0..1
    /\ store \in {StoreUpTo(n) : n \in head..1}
    /\ config \in [db_batch_size : 1..MaxBatchSize,
                    backfill_chunk_size : 1..MaxBackfillChunk,
                    gap_check_interval_secs : 0..MaxInterval, down : {{}}]
    /\ live = LiveStart(get_max_block_number(store))
    /\ stream = <<>>
    /\ gaps = GapsStart
    /\ scans = ScannerStart(config.gap_check_interval_secs)
    /\ db_queue = <<>>
    /\ metrics_queue = <<>>
    /\ gap_queue = <<>>
    /\ single_report = NoSingleReport
    /\ cr_in = NoChunkCall
    /\ cr_out = NoChunkResult

Next ==
    \/ ProduceBlock
    \/ LiveConnect
    \/ LiveSubscribe
    \/ LiveEvent
    \/ LiveStreamEnd
    \/ IntervalElapses
    \/ periodic_gap_check
    \/ GapRecv
    \/ GapConnect
    \/ GapChunk
    \/ process_db_requests
    \/ process_metrics

Spec == Init /\ [][Next]_vars

(***************************************************************************)
(* SpecStore: DbWriter driven as the tests drive it: a request is sent on  *)
(* the db channel, DbWriter handles it (with injected store faults), the   *)
(* test reads the metric and the queued gaps.                              *)
(***************************************************************************)
E1 == StakingEvent("delegate", 1, 1, 1, "t1", 0)
E2 == StakingEvent("delegate", 2, 1, 1, "t1", 0)
E3 == StakingEvent("delegate", 1, 2, 1, "t1", 0)
E4 == StakingEvent("validator_rewarded", 1, 1, 3, "t2", 0)
E5 == StakingEvent("validator_rewarded", 2, 1, 3, "t2", 0)

TestEvents == {E1, E2, E3, E4, E5}

RECURSIVE MetasOf(_, _)
\* The BlockMeta of each block of the events, once, in order of appearance.
MetasOf(events, seen) ==
    IF events = <<>> THEN <<>>
    ELSE LET m == Head(events).block_meta
         IN  IF m.block_number \in seen THEN MetasOf(Tail(events), seen)
             ELSE <<m>> \o MetasOf(Tail(events), seen \cup {m.block_number})

\* A batch as a producer builds it: the events bucketed, their blocks' metas.
BatchOf(events) ==
    [add_events(NewBatch, events) EXCEPT !["blocks"] = MetasOf(events, {})]

TestBatches == {BatchOf(es) : es \in SeqsUpTo(TestEvents, MaxBatchEvents)}

TestIdle == db_queue = <<>> /\ metrics_queue = <<>> /\ gap_queue = <<>>

TestSendBatch ==
    /\ TestIdle
    /\ \E b \in TestBatches : db_queue' = <<InsertRequest(b)>>
    /\ UNCHANGED <<store, metrics_queue, gap_queue, harnessVars, pipeVars>>

TestSendGetGaps ==
    /\ TestIdle
    /\ db_queue' = <<GetBlockGapsRequest>>
    /\ UNCHANGED <<store, metrics_queue, gap_queue, harnessVars, pipeVars>>

TestRecvMetric ==
    /\ metrics_queue # <<>>
    /\ metrics_queue' = Tail(metrics_queue)
    /\ UNCHANGED <<store, db_queue, gap_queue, harnessVars, pipeVars>>

TestRecvGap ==
    /\ gap_queue # <<>>
    /\ gap_queue' = Tail(gap_queue)
    /\ UNCHANGED <<store, db_queue, metrics_queue, harnessVars, pipeVars>>

InitStore ==
    /\ store = EmptyStore
    /\ db_queue = <<>>
    /\ metrics_queue = <<>>
    /\ gap_queue = <<>>
    /\ single_report = NoSingleReport
    /\ cr_in = NoChunkCall
    /\ cr_out = NoChunkResult
    /\ PipeIdle

NextStore ==
    \/ TestSendBatch
    \/ TestSendGetGaps
    \/ process_db_requests
    \/ TestRecvMetric
    \/ TestRecvGap

SpecStore == InitStore /\ [][NextStore]_vars

(***************************************************************************)
(* SpecSingle: the single-event inserts on the same events.                *)
(***************************************************************************)
TestInsertSingle ==
    /\ \E e \in TestEvents, io_fault \in 0..2 : insert_staking_event(e, io_fault)
    /\ UNCHANGED <<db_queue, metrics_queue, gap_queue, cr_in, cr_out, pipeVars>>

TestEnsureBlock == \E n \in 0..MaxBlock : ensure_block(BlockMeta(n, n))

NextSingle == TestInsertSingle \/ TestEnsureBlock

SpecSingle == InitStore /\ [][NextSingle]_vars

(***************************************************************************)
(* SpecGaps: the blocks table filled by ensure_block in any order, and     *)
(* gap queries on it (tests/database.rs).                                  *)
(***************************************************************************)
NextGaps ==
    \/ TestEnsureBlock
    \/ TestSendGetGaps
    \/ process_get_block_gaps
    \/ TestRecvGap

SpecGaps == InitStore /\ [][NextGaps]_vars

(***************************************************************************)
(* SpecChunk: chunk_range called on every range and chunk size of the      *)
(* bounded word.                                                           *)
(***************************************************************************)
InitChunk ==
    /\ store = EmptyStore
    /\ db_queue = <<>>
    /\ metrics_queue = <<>>
    /\ gap_queue = <<>>
    /\ single_report = NoSingleReport
    /\ cr_in \in [ start : Word, end : Word, chunk_size : 0..MaxChunkSize,
                   checks : BOOLEAN ]
    /\ cr_in.start <= cr_in.end
    /\ cr_out = NoChunkResult
    /\ PipeIdle

CallChunkRange ==
    /\ cr_out.status = "none"
    /\ cr_out' = chunk_range([start |-> cr_in.start, end |-> cr_in.end],
                             cr_in.chunk_size, cr_in.checks)
    /\ UNCHANGED <<storeVars, single_report, cr_in, pipeVars>>

NextChunk == CallChunkRange

SpecChunk == InitChunk /\ [][NextChunk]_vars

(***************************************************************************)
(* SpecBackfill: the gap backfiller on the ranges a gap query finds in a   *)
(* blocks table the test fills while the backfiller is idle.               *)
(***************************************************************************)
BackfillIdle == db_queue = <<>> /\ gap_queue = <<>> /\ gaps.pc = "recv"

TestEnsureBlockIdle == BackfillIdle /\ TestEnsureBlock

InitBackfill ==
    /\ store = EmptyStore
    /\ db_queue = <<>>
    /\ metrics_queue = <<>>
    /\ gap_queue = <<>>
    /\ single_report = NoSingleReport
    /\ cr_in = NoChunkCall
    /\ cr_out = NoChunkResult
    /\ chain = <<>>
    /\ head = 0
    /\ config \in [db_batch_size : {1}, backfill_chunk_size : 1..MaxBackfillChunk,
                    gap_check_interval_secs : {1}, down : {{}}]
    /\ live = LiveStart(None)
    /\ stream = <<>>
    /\ gaps = GapsStart
    /\ scans = NoScanner

NextBackfill ==
    \/ TestEnsureBlockIdle
    \/ TestSendGetGaps
    \/ process_get_block_gaps
    \/ GapRecv
    \/ GapConnect
    \/ GapChunk
    \/ process_metrics

SpecBackfill == InitBackfill /\ [][NextBackfill]_vars

(***************************************************************************)
(* FairSpec: the whole indexer on a chain of well-formed logs, started on  *)
(* the store of an earlier run that indexed block 1. Faults strike only    *)
(* while the chain still grows; then the RPC endpoints and the store work, *)
(* and every task runs whenever it has a step to take.                     *)
(***************************************************************************)
GoodChain ==
    << << Log(1, "t1", 0, 0, "delegate", 1, 1, "ok") >>,
       << Log(2, "t2", 0, 0, "delegate", 1, 1, "ok") >>,
       << Log(3, "t3", 0, 0, "undelegate", 1, 1, "ok") >>,
       << Log(4, "t4", 0, 0, "delegate", 1, 1, "ok") >> >>

InitFair ==
    /\ chain = GoodChain
    /\ head = 1
    /\ store = StoreUpTo(1)
    /\ config = [db_batch_size |-> 1, backfill_chunk_size |-> 1,
                 gap_check_interval_secs |-> 1, down |-> {}]
    /\ live = LiveStart(get_max_block_number(store))
    /\ stream = <<>>
    /\ gaps = GapsStart
    /\ scans = ScannerStart(config.gap_check_interval_secs)
    /\ db_queue = <<>>
    /\ metrics_queue = <<>>
    /\ gap_queue = <<>>
    /\ single_report = NoSingleReport
    /\ cr_in = NoChunkCall
    /\ cr_out = NoChunkResult

\* A step on which the RPC endpoints and the store work: handshakes and
\* subscriptions are accepted, a stream ends only by the watchdog on a silent
\* stream, and no query, transaction or get_logs call fails.
Working ==
    /\ (live.pc = "connect" /\ live' # live) => live'.pc = "subscribe"
    /\ (live.pc = "subscribe" /\ live' # live) => live'.pc = "stream"
    /\ (live.pc = "stream" /\ live'.pc = "connect") => stream = <<>>
    /\ (gaps.pc = "connect" /\ gaps' # gaps) => gaps'.pc # "connect"
    /\ Len(metrics_queue') > Len(metrics_queue) =>
          metrics_queue'[Len(metrics_queue')].kind
              \notin {"FailedToInsert", "InsertTimeout", "FailedToBackfill"}
    /\ ( /\ db_queue # <<>>
         /\ Head(db_queue) = GetBlockGapsRequest
         /\ db_queue' = Tail(db_queue) )
          => gap_queue' = gap_queue \o get_block_gaps(store)

\* Once the chain has reached its last block every step is a working one.
Settled == head = Len(chain) => Working

NextFair ==
    \/ ProduceBlock /\ Settled
    \/ LiveConnect /\ Settled
    \/ LiveSubscribe /\ Settled
    \/ LiveEvent /\ Settled
    \/ LiveStreamEnd /\ Settled
    \/ IntervalElapses /\ Settled
    \/ periodic_gap_check /\ Settled
    \/ GapRecv /\ Settled
    \/ GapConnect /\ Settled
    \/ GapChunk /\ Settled
    \/ process_get_block_gaps /\ Settled
    \/ process_insert_complete_blocks /\ Settled
    \/ process_metrics /\ Settled

\* DbWriter has a step to take, and the step it takes.
DbWriterReady ==
    /\ db_queue # <<>>
    /\ Head(db_queue) = GetBlockGapsRequest \/ MetricsRoom

DbWriterTakes == db_queue # <<>> /\ db_queue' = Tail(db_queue)

\* The gap backfiller has a chunk to fetch, and the step that fetches it.
GapChunkReady == gaps.pc = "chunks" /\ MetricsRoom

GapChunkTaken == gaps.pc = "chunks" /\ gaps' # gaps

\* The chain reaches its last block. Each spawned task runs whenever it has a
\* step to take; the interval timer of the gap scanner and the watchdog of
\* stream_events expire. A send on the unbounded metrics channel never
\* waits, so a step that sends a metric is taken if there is room again and
\* again; for DbWriter and for the chunk step of the gap backfiller this
\* strong fairness is spelled out.
FairSpec ==
    /\ InitFair
    /\ [][NextFair]_vars
    /\ WF_vars(ProduceBlock)
    /\ SF_vars(LiveConnect)
    /\ WF_vars(LiveSubscribe)
    /\ WF_vars(LiveEvent)
    /\ SF_vars(LiveStreamEnd)
    /\ WF_vars(IntervalElapses)
    /\ WF_vars(periodic_gap_check)
    /\ WF_vars(GapRecv)
    /\ SF_vars(GapConnect)
    /\ ([]<>GapChunkReady => []<><<GapChunkTaken>>_vars)
    /\ ([]<>DbWriterReady => []<><<DbWriterTakes>>_vars)
    /\ WF_vars(process_metrics)

(***************************************************************************)
(* SpecRpc: the two tasks that talk to the RPC endpoints, LiveIngestor and *)
(* GapBackfiller, on the chain of Spec with some of the URLs down. The     *)
(* requests they send to DbWriter are received and dropped.                *)
(***************************************************************************)
Urls == 0..(NumUrls - 1)

TestRecvRequest ==
    /\ db_queue # <<>>
    /\ db_queue' = Tail(db_queue)
    /\ UNCHANGED <<store, metrics_queue, gap_queue, harnessVars, pipeVars>>

InitRpc ==
    /\ chain = Chain
    /\ head = 0
    /\ store \in {StoreUpTo(n) : n \in 0..1}
    /\ config \in [db_batch_size : 1..MaxLiveBatchSize, backfill_chunk_size : {1},
                    gap_check_interval_secs : {1},
                    down : {d \in SUBSET Urls : d # Urls}]
    /\ live = LiveStart(get_max_block_number(store))
    /\ stream = <<>>
    /\ gaps = GapsStart
    /\ scans = NoScanner
    /\ db_queue = <<>>
    /\ metrics_queue = <<>>
    /\ gap_queue = <<>>
    /\ single_report = NoSingleReport
    /\ cr_in = NoChunkCall
    /\ cr_out = NoChunkResult

NextRpc ==
    \/ ProduceBlock
    \/ LiveConnect
    \/ LiveSubscribe
    \/ LiveEvent
    \/ LiveStreamEnd
    \/ GapRecv
    \/ GapConnect
    \/ GapChunk
    \/ TestRecvRequest
    \/ process_metrics

SpecRpc == InitRpc /\ [][NextRpc]_vars

\* Each spawned task runs whenever it has a step to take: a task at its
\* connect step makes its attempt, the metrics consumer receives, and the
\* watchdog of stream_events is a timer that expires on a stream left
\* silent. A send on the unbounded metrics channel never waits, so a step
\* that sends a metric is taken if there is room again and again.
FairSpecRpc ==
    /\ SpecRpc
    /\ SF_vars(LiveConnect)
    /\ SF_vars(LiveStreamEnd)
    /\ SF_vars(GapConnect)
    /\ WF_vars(process_metrics)

(***************************************************************************)
(* Properties.                                                             *)
(***************************************************************************)
Last(s) == s[Len(s)]

\* DbWriter has just handled an InsertCompleteBlocks request: the request
\* left the db channel and a metric joined the metrics channel.
InsertHandled ==
    /\ db_queue # <<>>
    /\ Head(db_queue).kind = "InsertCompleteBlocks"
    /\ db_queue' = Tail(db_queue)
    /\ Len(metrics_queue') = Len(metrics_queue) + 1

\* The natural key of a row of table t.
NaturalKey(t, row) == Proj(row, UniqueIndex(t))

StoredKeys(pool, t) == {NaturalKey(t, r) : r \in BagToSet(pool[t])}

\* Every BlockMeta of the batch has a block row and every event of the batch
\* has its row.
BatchPresent(pool, batch) ==
    /\ \A i \in DOMAIN batch["blocks"] :
          batch["blocks"][i].block_number \in StoredBlockNumbers(pool)
    /\ \A t \in StakingEventType : \A i \in DOMAIN batch[t] :
          EventRow(batch[t][i]) \in BagToSet(pool[t])

C3_CommittedBatchPresent ==
    \A i \in DOMAIN metrics_queue :
        LET m == metrics_queue[i]
        IN  (m.kind = "InsertedEvents" /\ m.req.kind = "InsertCompleteBlocks")
            => BatchPresent(store, m.req.batch)

\* C4: inserting a batch a second time, right after it was inserted, leaves
\* every table exactly as the first insert left it.
C4_InsertTwiceIsInsertOnce ==
    \A i \in DOMAIN metrics_queue :
        LET m == metrics_queue[i]
        IN  (m.kind = "InsertedEvents" /\ m.req.kind = "InsertCompleteBlocks")
            => \A fault \in {0} \cup AwaitPoints(m.req.batch) :
                  insert_blocks(store, m.req.batch, fault, "error").pool = store

\* C4 witness: a batch with events has been inserted and rows of it were new.
C4_Witness ==
    \E i \in DOMAIN metrics_queue :
        LET m == metrics_queue[i]
        IN  /\ m.kind = "InsertedEvents"
            /\ m.req.batch["blocks"] # <<>>
            /\ m.req.batch["delegate"] # <<>>
            /\ m.counts["delegate"][1] >= 1
            /\ insert_blocks(store, m.req.batch, 0, "error").status = "Ok"

ExpectedGaps(S) ==
    { [start |-> prev + 1, end |-> Lead(S, prev)] :
        prev \in {x \in S : Lead(S, x) > x + 1} }

\* C6: get_block_gaps returns the half-open range [prev + 1, next) for every
\* pair of consecutive stored block numbers with next > prev + 1, and no other
\* range.
C6_GapsAreHalfOpen ==
    Elems(get_block_gaps(store)) = ExpectedGaps(StoredBlockNumbers(store))

\* The blocks covered by a set of inclusive spans.
SpanUnion(spans) == UNION {sp.from .. sp.to : sp \in spans}

\* C7: when the backfiller has finished a range a gap query pushed for the
\* stored pair prev < next, the spans it requested through historical_logs
\* cover exactly prev + 1 .. next - 1.
C7_BackfillCoversGap ==
    [][ (gaps.pc # "recv" /\ gaps'.pc = "recv")
        => SpanUnion(gaps'.spans) =
              (gaps.range.start ..
                 Lead(StoredBlockNumbers(store), gaps.range.start - 1) - 1) ]_vars

\* The blocks of a sequence of half-open chunks, in order.
RECURSIVE Blocks(_)
Blocks(chunks) ==
    IF chunks = <<>> THEN <<>>
    ELSE [i \in 1..(Head(chunks).end - Head(chunks).start) |-> Head(chunks).start + i - 1]
         \o Blocks(Tail(chunks))

\* C8: for a <= b and chunk_size k >= 1, chunk_range returns chunks that
\* (a) concatenate to [a, b), (b) are contiguous, non-empty, of size <= k and
\* of size exactly k but for the last, (c) are none when a = b, (d) are the
\* one chunk [a, b) when b - a <= k.
C8_ChunkRangeLaws ==
    (cr_out.status # "none" /\ cr_in.chunk_size >= 1)
    => LET a == cr_in.start
           b == cr_in.end
           k == cr_in.chunk_size
           c == cr_out.chunks
       IN  /\ cr_out.status = "returns"
           /\ \A i \in DOMAIN c : c[i].start < c[i].end /\ c[i].end - c[i].start <= k
           /\ \A i \in DOMAIN c : i < Len(c) => c[i].end - c[i].start = k
           /\ \A i \in DOMAIN c : i < Len(c) => c[i].end = c[i + 1].start
           /\ Blocks(c) = [i \in 1..(b - a) |-> a + i - 1]
           /\ a = b => c = <<>>
           /\ (a < b /\ b - a <= k) => c = <<[start |-> a, end |-> b]>>

KeyedByValId == {"delegate", "undelegate", "withdraw", "claim_rewards"}

\* C9: on the single-event path, a Delegate, Undelegate, Withdraw or
\* ClaimRewards event whose statement the connection does not interrupt is
\* left out exactly when a stored row of its variant has its (val_id,
\* transaction_hash), and is stored otherwise.
C9_SinglePathNaturalKey ==
    [][ ( /\ single_report' # single_report
          /\ single_report'.io_fault = 0
          /\ single_report'.event.type \in KeyedByValId )
        => LET e == single_report'.event
               t == e.type
               key == Proj(EventRow(e), {"val_id", "transaction_hash"})
               dup == \E r \in BagToSet(store[t]) :
                         Proj(r, {"val_id", "transaction_hash"}) = key
           IN  /\ dup => store'[t] = store[t]
               /\ ~dup => EventRow(e) \in BagToSet(store'[t]) ]_vars

\* C1: if the blocks table has a row for block b then every staking event
\* the chain emitted in block b is present in its event table.
C1_BlockRowImpliesAllEvents ==
    \A b \in StoredBlockNumbers(store) \cap DOMAIN chain :
        \A e \in ChainEvents(b) : EventRow(e) \in BagToSet(store[e.type])

\* C5: each natural key appears at most once in its event table and each
\* block_number at most once in blocks.
C5_AtMostOnce ==
    \A t \in Tables : \A r \in BagToSet(store[t]) :
        /\ CopiesIn(r, store[t]) = 1
        /\ \A q \in BagToSet(store[t]) :
              NaturalKey(t, q) = NaturalKey(t, r) => q = r

\* C5 witness: the live ingestor and the backfiller have both submitted block
\* 2, and the batch that came second found its rows stored.
C5_Witness ==
    /\ 2 \in StoredBlockNumbers(store)
    /\ \E i \in DOMAIN metrics_queue :
          LET m == metrics_queue[i]
          IN  /\ m.kind = "InsertedEvents"
              /\ m.req.batch["blocks"] # <<>>
              /\ m.counts["delegate"][1] < m.counts["delegate"][2]

\* A step of LiveEvent: the live ingestor takes the head of its stream.
LiveEventStep ==
    /\ live.pc = "stream"
    /\ live'.pc = "stream"
    /\ stream # <<>>
    /\ stream' = Tail(stream)

\* A step of DbWriter that serves a GetBlockGaps request.
GapScanStep ==
    /\ db_queue # <<>>
    /\ Head(db_queue) = GetBlockGapsRequest
    /\ db_queue' = Tail(db_queue)

\* C11: the first decoded live event, at block n, pushes exactly the range
\* [s, n) when start_block = Some(s) and n > s and nothing otherwise, and
\* leaves start_block = None; start_block never leaves None, an item that
\* decodes to no event pushes nothing, and nothing but a LiveEvent step or a
\* gap scan ever adds to the gap queue. So the live ingestor pushes at most
\* one range, and none when it starts with None.
C11_StartupGapLatch ==
    [][ /\ live.start_block = None => live'.start_block = None
        /\ Len(gap_queue') > Len(gap_queue) => LiveEventStep \/ GapScanStep
        /\ LiveEventStep =>
              LET x == extract_event(Head(stream))
                  n == x.event.block_meta.block_number
                  s == live.start_block
              IN  IF x.tag = "Some"
                  THEN /\ live'.start_block = None
                       /\ gap_queue' =
                             IF s # None /\ n > s[1]
                             THEN Append(gap_queue, [start |-> s[1], end |-> n])
                             ELSE gap_queue
                  ELSE /\ live'.start_block = s
                       /\ gap_queue' = gap_queue ]_vars

\* C11 witness: no gap scan was ever requested, the live ingestor started at
\* Some(1), its first decoded event was of block 2, and [1, 2) is queued.
C11_Witness ==
    /\ scans.sent = 0
    /\ live.start_block = None
    /\ live.current_block_meta # None
    /\ gap_queue = << [start |-> 1, end |-> 2] >>

\* C12: when the live stream terminates and the live ingestor goes back to
\* connecting, the block being accumulated is discarded: current_block_meta
\* is None and current_block_buffer is empty after the step.
C12_DiscardOnReconnect ==
    [][ (live.pc = "stream" /\ live'.pc = "connect")
        => /\ live'.current_block_meta = None
           /\ live'.current_block_buffer = << >> ]_vars

\* The block numbers of the BlockMetas and events of a batch.
BatchBlockNumbers(b) ==
    {m.block_number : m \in Elems(b["blocks"])}
        \cup UNION {{e.block_meta.block_number : e \in Elems(b[t])} :
                       t \in StakingEventType}

\* C13: the live ingestor's batch grows only on a LiveEvent step whose item
\* decodes to an event of another block than the one being accumulated; an
\* insert request enters the db queue from the live ingestor only on such a
\* step, and neither that request's batch nor the batch kept holds a
\* BlockMeta or an event of the block being accumulated after the step.
C13_SealingRule ==
    [][ LET x == extract_event(Head(stream))
            n == x.event.block_meta.block_number
            crossing == /\ LiveEventStep
                        /\ x.tag = "Some"
                        /\ live.current_block_meta # None
                        /\ live.current_block_meta[1].block_number # n
        IN  /\ (live'.batch # live.batch \/ live'.block_count # live.block_count)
                  => crossing
            /\ (Len(db_queue') > Len(db_queue) /\ gaps' = gaps /\ scans' = scans)
                  => /\ crossing
                     /\ Last(db_queue').kind = "InsertCompleteBlocks"
                     /\ live'.current_block_meta = Some(x.event.block_meta)
                     /\ n \notin BatchBlockNumbers(Last(db_queue').batch)
            /\ live'.current_block_meta # None
                  => live'.current_block_meta[1].block_number
                        \notin BatchBlockNumbers(live'.batch) ]_vars

\* C13 witness: the stream idles on block 3 after the live ingestor, alone
\* at work, handed over a batch with block 2.
C13_Witness ==
    /\ gaps = GapsStart
    /\ live.pc = "stream"
    /\ stream = << >>
    /\ live.current_block_meta # None
    /\ live.current_block_meta[1].block_number = 3
    /\ db_queue # << >>
    /\ Last(db_queue).kind = "InsertCompleteBlocks"
    /\ 2 \in BatchBlockNumbers(Last(db_queue).batch)

\* A step of DbWriter: a request waits and no other task moves.
DbWriterStep ==
    /\ db_queue # << >>
    /\ pipeVars' = pipeVars
    /\ harnessVars' = harnessVars
    /\ Len(metrics_queue') >= Len(metrics_queue)
    /\ Len(gap_queue') >= Len(gap_queue)

C17_WatchdogFailover ==
    [][ (live.pc = "stream" /\ live'.pc = "connect")
        => /\ live'.attempts > live.attempts
           /\ ConnectTarget(live'.attempts) # live.subscription[1] ]_vars

\* A connect attempt of the live ingestor, and one of the gap backfiller.
LiveConnectStep == live.pc = "connect" /\ live' # live

GapConnectStep == gaps.pc = "connect" /\ gaps' # gaps

\* The metric of a failed connect to the URL of attempt a has just been sent:
\* RpcConnRefused after a handshake error, RpcTimeout after the timeout.
ConnectFailureSent(a) ==
    LET m == Last(metrics_queue')
    IN  /\ metrics_queue' = Append(metrics_queue, m)
        /\ m.req.kind = "connect"
        /\ m.req.url = ConnectTarget(a)
        /\ \/ m.req.outcome = "handshake_error" /\ m.kind = "RpcConnRefused"
           \/ m.req.outcome = "timeout" /\ m.kind = "RpcTimeout"

\* C19: a connect attempt either succeeds, leaving the task with a provider
\* and sending no metric, or fails with RpcConnRefused on a handshake error
\* and RpcTimeout on the connection timeout, and then the task sends exactly
\* that one metric; RpcConnRefused is sent by nothing else.
C19_ConnectOutcomes ==
    [][ /\ LiveConnectStep =>
              \/ /\ live'.pc = "subscribe"
                 /\ live'.provider = Some(ConnectTarget(live.attempts))
                 /\ metrics_queue' = metrics_queue
              \/ /\ live'.pc = "connect"
                 /\ live'.provider = None
                 /\ ConnectFailureSent(live.attempts)
        /\ GapConnectStep =>
              \/ /\ gaps'.pc # "connect"
                 /\ gaps'.provider # None
                 /\ metrics_queue' = metrics_queue
              \/ /\ gaps'.pc = "connect"
                 /\ gaps'.provider = None
                 /\ ConnectFailureSent(gaps.attempts)
        /\ ( /\ Len(metrics_queue') > Len(metrics_queue)
             /\ Last(metrics_queue').kind = "RpcConnRefused" )
              => LiveConnectStep \/ GapConnectStep ]_vars

\* C19 witness: the live ingestor's first connect timed out and its metric
\* waits; the gap backfiller is connected.
C19_Witness ==
    /\ live.pc = "connect"
    /\ live.attempts = 1
    /\ gaps.provider # None
    /\ metrics_queue # << >>
    /\ Last(metrics_queue).kind = "RpcTimeout"
    /\ Last(metrics_queue).req.kind = "connect"
    /\ Last(metrics_queue).req.outcome = "timeout"

\* C20: the live stream is left only for the connect step, and the step that
\* leaves it sends exactly one RpcTimeout; a stream that has gone silent is
\* always left in the end.
C20_WatchdogLiveness ==
    /\ [][ (live.pc = "stream" /\ live'.pc # "stream")
           => /\ live'.pc = "connect"
              /\ metrics_queue' = Append(metrics_queue, PlainMetric("RpcTimeout")) ]_vars
    /\ (live.pc = "stream" /\ stream = << >>) ~> (live.pc = "connect")

\* C20 witness: the stream went silent on a block whose event the live
\* ingestor holds, the watchdog fired, and its RpcTimeout waits.
C20_Witness ==
    /\ live.pc = "connect"
    /\ live.current_block_meta # None
    /\ head = Len(chain)
    /\ metrics_queue # << >>
    /\ Last(metrics_queue) = PlainMetric("RpcTimeout")

\* C18: a connect attempt with counter a is made to URL a mod NumUrls; a
\* failed attempt of either task adds exactly one to its counter, and no
\* step lowers a counter, so NumUrls failures in a row try every URL. With a
\* URL that accepts connections, a task at its connect step is connected in
\* the end.
C18_UrlRotation ==
    /\ [][ /\ live'.attempts >= live.attempts
           /\ gaps'.attempts >= gaps.attempts
           /\ live'.attempts # live.attempts =>
                 /\ LiveConnectStep
                 /\ live'.attempts = live.attempts + 1
                 /\ Last(metrics_queue').req.url = live.attempts % NumUrls
           /\ gaps'.attempts # gaps.attempts =>
                 /\ GapConnectStep
                 /\ gaps'.attempts = gaps.attempts + 1
                 /\ Last(metrics_queue').req.url = gaps.attempts % NumUrls
           /\ (LiveConnectStep /\ live'.attempts = live.attempts) =>
                 live'.provider = Some(live.attempts % NumUrls)
           /\ (LiveConnectStep /\ live'.pc = "connect") =>
                 live'.attempts = live.attempts + 1
           /\ (GapConnectStep /\ gaps'.pc = "connect") =>
                 gaps'.attempts = gaps.attempts + 1 ]_vars
    /\ (live.pc = "connect") ~> (live.pc = "subscribe")
    /\ (gaps.pc = "connect") ~> (gaps.pc # "connect")

\* C18 witness: URL 0 is down; the live ingestor failed on it and is
\* connected to URL 1 by its second attempt.
C18_Witness ==
    /\ config.down = {0}
    /\ live.pc = "subscribe"
    /\ live.attempts = 1
    /\ live.provider = Some(1)

\* Block b has a row in blocks.
Stored(b) == b \in StoredBlockNumbers(store)

\* C14: once the chain rests at its last block t and the live ingestor holds
\* the events of t, unsealed, block t is committed in the end.
C14_TailBlockRecovery ==
    ( /\ head = Len(chain)
      /\ live.current_block_meta # None
      /\ live.current_block_meta[1].block_number = Len(chain) )
        ~> Stored(Len(chain))

\* A failed InsertCompleteBlocks request with block b has just been answered
\* by InsertTimeout or FailedToInsert.
LostNow(b) ==
    \E i \in DOMAIN metrics_queue :
        /\ metrics_queue[i].kind \in {"InsertTimeout", "FailedToInsert"}
        /\ b \in BatchBlockNumbers(metrics_queue[i].req.batch)

\* A block below b and a block above b are stored.
Surrounded(b) ==
    /\ \E lo \in StoredBlockNumbers(store) : lo < b
    /\ \E hi \in StoredBlockNumbers(store) : hi > b

\* C15: a block of a batch lost to a timeout or a store error is committed in
\* the end, once blocks below and above it are stored.
C15_LostBatchRecovery ==
    \A b \in 2..3 : [](LostNow(b) => [](Surrounded(b) => <>Stored(b)))

(***************************************************************************)
(* GapScanner, single writer, back-pressure.                               *)
(***************************************************************************)
\* The GetBlockGaps requests waiting in a queue of requests.
GetGapsPending(q) == Len(SelectSeq(q, LAMBDA r : r = GetBlockGapsRequest))

\* C21: the gap scanner's first GetBlockGaps request can be sent from the
\* start, whatever the live ingestor does and before any interval has
\* elapsed; every elapsed interval makes exactly one more tick due and sends
\* nothing; a GetBlockGaps request enters the db queue only by taking one due
\* tick, one request per tick, appended at the end; a due tick can always be
\* taken, and the task never ends.
C21_ScannerSchedule ==
    /\ []((scans.sent = 0 \/ scans.due > 0) => ENABLED periodic_gap_check)
    /\ []~scans.panicked
    /\ [][ /\ scans'.due > scans.due =>
                 /\ scans'.due = scans.due + 1
                 /\ db_queue' = db_queue
           /\ ( \/ GetGapsPending(db_queue') > GetGapsPending(db_queue)
                \/ scans'.due < scans.due ) =>
                 /\ scans'.due = scans.due - 1
                 /\ db_queue' = Append(db_queue, GetBlockGapsRequest) ]_vars

\* q is p with requests sent after it.
Extends(q, p) == Len(q) >= Len(p) /\ SubSeq(q, 1, Len(p)) = p

C23_NoBackPressure ==
    /\ [](live.pc = "stream" /\ stream # << >> => ENABLED LiveEvent)
    /\ [](db_queue # << >> /\ MetricsRoom => ENABLED process_db_requests)
    /\ [](gaps.pc = "recv" /\ gap_queue # << >> => ENABLED GapRecv)
    /\ [](gaps.pc = "connect" /\ MetricsRoom => ENABLED GapConnect)
    /\ [](gaps.pc = "chunks" /\ MetricsRoom => ENABLED GapChunk)
    /\ [](scans.due > 0 => ENABLED periodic_gap_check)
    /\ [](gaps.pc \in {"recv", "connect", "chunks"})
    /\ [][LiveEventStep => Extends(db_queue', db_queue)]_vars

\* C23 witness: three requests wait in the db queue, none taken by DbWriter
\* since the live ingestor sent its first batch, and the live ingestor is
\* about to consume a further item of its stream.
C23_Witness ==
    /\ Len(db_queue) >= 3
    /\ \E i \in DOMAIN db_queue :
          /\ db_queue[i].kind = "InsertCompleteBlocks"
          /\ 2 \in BatchBlockNumbers(db_queue[i].batch)
    /\ live.pc = "stream"
    /\ stream # << >>

(***************************************************************************)
(* SpecLogs: the gap backfiller on the range [1, 3) of chains whose two    *)
(* blocks carry every mix of a few logs, in every order the RPC may return *)
(* them: logs of several variants in one block, two logs of one            *)
(* transaction, a log of another contract event, a payload that does not   *)
(* decode. The test takes the submitted batches from the db channel.       *)
(***************************************************************************)
L1 == Log(1, "t1", 0, 0, "undelegate", 1, 1, "ok")
L2 == Log(1, "t2", 1, 1, "delegate", 1, 1, "ok")
L3 == Log(1, "t2", 1, 2, "delegate", 2, 1, "ok")
L4 == Log(2, "t3", 0, 0, "delegate", 1, 1, "ok")
L5 == Log(2, "t4", 1, 1, "withdraw", 1, 1, "bad_payload")
L6 == Log(2, "t5", 2, 2, "other", 1, 1, "ok")

\* The sequences of distinct elements of S.
Orders(S) ==
    {s \in SeqsUpTo(S, Cardinality(S)) :
        \A i, j \in DOMAIN s : i # j => s[i] # s[j]}

TestChains == {<<b1, b2>> : b1 \in Orders({L1, L2, L3}), b2 \in Orders({L4, L5, L6})}

InitLogs ==
    /\ chain \in TestChains
    /\ head = 2
    /\ store = EmptyStore
    /\ config \in [db_batch_size : {1}, backfill_chunk_size : 1..MaxBackfillChunk,
                    gap_check_interval_secs : {1}, down : {{}}]
    /\ live = LiveStart(None)
    /\ stream = <<>>
    /\ gaps = GapsStart
    /\ scans = NoScanner
    /\ db_queue = <<>>
    /\ metrics_queue = <<>>
    /\ gap_queue = << [start |-> 1, end |-> 3] >>
    /\ single_report = NoSingleReport
    /\ cr_in = NoChunkCall
    /\ cr_out = NoChunkResult

NextLogs ==
    \/ GapRecv
    \/ GapConnect
    \/ GapChunk
    \/ TestRecvRequest
    \/ process_metrics

SpecLogs == InitLogs /\ [][NextLogs]_vars

(***************************************************************************)
(* Backfill ordering, decode failures, backfill metrics.                   *)
(***************************************************************************)
\* The events of a batch in the order insert_many_blocks_inner writes them.
CommitOrder(batch) ==
    Concat([k \in DOMAIN StatementOrder |-> batch[StatementOrder[k]]])

\* The logs of the chain, and the log an event was decoded from.
ChainLogs == UNION {Elems(chain[b]) : b \in DOMAIN chain}

LogOf(e) ==
    CHOOSE l \in ChainLogs : extract_event(l) = [tag |-> "Some", event |-> e]

\* (transaction_index, log_index) of a does not come after that of b.
NotAfter(a, b) ==
    \/ a.transaction_index < b.transaction_index
    \/ a.transaction_index = b.transaction_index /\ a.log_index <= b.log_index

\* A step in which the gap backfiller submits a batch.
BackfillSubmits ==
    /\ gaps.pc = "chunks"
    /\ gaps' # gaps
    /\ Len(db_queue') = Len(db_queue) + 1

\* C24: in every batch the gap backfiller submits the BlockMeta entries are
\* in increasing block-number order and, in the order in which the batch is
\* written to the store, the events of one block are in non-decreasing
\* (transaction_index, log_index).
C24_BackfillEventOrder ==
    [][ BackfillSubmits =>
          LET batch == Last(db_queue').batch
              metas == batch["blocks"]
              order == CommitOrder(batch)
          IN  /\ \A i, j \in DOMAIN metas :
                    i < j => metas[i].block_number < metas[j].block_number
              /\ \A i, j \in DOMAIN order :
                    (i < j /\ order[i].block_meta = order[j].block_meta)
                       => NotAfter(LogOf(order[i]), LogOf(order[j])) ]_vars

\* The events of the logs that decode.
Decodable(logs) ==
    {extract_event(l).event : l \in {x \in Elems(logs) : extract_event(x).tag = "Some"}}

\* A step of the gap backfiller on the chunk at the head of its list whose
\* historical_logs call returned the logs.
GapChunkFetched ==
    /\ gaps.pc = "chunks"
    /\ gaps' # gaps
    /\ Last(metrics_queue').cause # "rpc"

\* C25: a log that fails to decode is skipped. On the live path the item
\* changes nothing, the stream stays open and the next item can be consumed;
\* on the backfill path a chunk whose fetched logs hold decodable ones is
\* submitted in one batch with all of them, whatever else the reply holds;
\* and the gap backfiller never ends.
C25_DecodeFailureSkipped ==
    /\ [][ (LiveEventStep /\ extract_event(Head(stream)).tag = "Err") =>
              /\ live' = live
              /\ db_queue' = db_queue
              /\ gap_queue' = gap_queue ]_vars
    /\ [](live.pc = "stream" /\ stream # << >> => ENABLED LiveEvent)
    /\ [](gaps.pc \in {"recv", "connect", "chunks"})
    /\ [][ ( /\ GapChunkFetched
             /\ Decodable(LogsIn(HistoricalSpan(Head(gaps.chunks)))) # {} ) =>
              /\ Len(db_queue') = Len(db_queue) + 1
              /\ Decodable(LogsIn(HistoricalSpan(Head(gaps.chunks))))
                    \subseteq Elems(CommitOrder(Last(db_queue').batch)) ]_vars


\* The block count a BackfilledBlocks or FailedToBackfill metric carries.
MetricBlocks(m) == m.fault

\* A step of the gap backfiller on the chunk at the head of its list.
GapChunkStep == gaps.pc = "chunks" /\ gaps' # gaps

\* C26: the gap backfiller takes the chunks of chunk_range(r, chunk_size)
\* one by one in order; each chunk step, whether its chunk is backfilled or
\* fails, sends exactly one metric, BackfilledBlocks or FailedToBackfill with
\* the size of the chunk, and goes on with the chunks that follow; the range
\* is left only after its last chunk, and the chunks then processed are
\* disjoint and cover exactly r, so the counts of the metrics sum to |r|.
C26_BackfillFailuresDoNotAbort ==
    /\ [][ (gaps.pc = "connect" /\ gaps'.pc # "connect") =>
              /\ gaps'.pc \in {"recv", "chunks"}
              /\ gaps'.chunks =
                    chunk_range(gaps.range, config.backfill_chunk_size, FALSE).chunks
              /\ gaps'.spans = {} ]_vars
    /\ [][ GapChunkStep =>
              LET c == Head(gaps.chunks)
                  m == Last(metrics_queue')
              IN  /\ metrics_queue' = Append(metrics_queue, m)
                  /\ m.kind \in {"BackfilledBlocks", "FailedToBackfill"}
                  /\ MetricBlocks(m) = c.end - c.start
                  /\ Len(db_queue') > Len(db_queue) => m.kind = "BackfilledBlocks"
                  /\ gaps'.chunks = Tail(gaps.chunks)
                  /\ gaps'.spans = gaps.spans \cup {HistoricalSpan(c)}
                  /\ HistoricalSpan(c) \notin gaps.spans
                  /\ gaps'.pc = IF Tail(gaps.chunks) = << >> THEN "recv" ELSE "chunks"
                  /\ gaps'.range = gaps.range ]_vars
    /\ [][ (gaps.pc # "recv" /\ gaps'.pc = "recv") =>
              /\ SpanUnion(gaps'.spans) = gaps.range.start .. (gaps.range.end - 1)
              /\ \A a, b \in gaps'.spans :
                    a # b => (a.from .. a.to) \cap (b.from .. b.to) = {} ]_vars

\* C26 witness: the first chunk of the range [1, 3) has just failed, its
\* FailedToBackfill(1) is sent, and the gap backfiller stands before the
\* second chunk.
C26_Witness ==
    /\ gaps.pc = "chunks"
    /\ gaps.range = [start |-> 1, end |-> 3]
    /\ gaps.chunks = << [start |-> 2, end |-> 3] >>
    /\ metrics_queue # << >>
    /\ Last(metrics_queue).kind = "FailedToBackfill"
    /\ MetricBlocks(Last(metrics_queue)) = 1


\* The blocks of a half-open range.
RangeBlocks(r) == r.start .. (r.end - 1)

\* C27: a chunk that the gap backfiller reports as backfilled leaves none of
\* its blocks missing: each is stored already or has its BlockMeta in the
\* batch submitted for the chunk, so that once the batch is committed no
\* block of the chunk is reported again. Block rows are never removed, and no
\* range that get_block_gaps reports holds a stored block; so a later scan
\* reports only what is still missing, and nothing once every gap is
\* backfilled.
C27_GapsClose ==
    /\ [][ (GapChunkStep /\ Last(metrics_queue').kind = "BackfilledBlocks") =>
              \A b \in RangeBlocks(Head(gaps.chunks)) :
                 \/ b \in StoredBlockNumbers(store)
                 \/ /\ Len(db_queue') = Len(db_queue) + 1
                    /\ b \in BatchBlockNumbers(Last(db_queue').batch) ]_vars
    /\ [][StoredBlockNumbers(store) \subseteq StoredBlockNumbers(store')]_vars
    /\ [](\A r \in Elems(get_block_gaps(store)) :
             RangeBlocks(r) \cap StoredBlockNumbers(store) = {})


(***************************************************************************)
(* SpecBlocks: DbWriter on batches that carry the same block more than     *)
(* once: in two requests, twice in one request, and with another hash and  *)
(* timestamp (the block as another fork of the chain has it).              *)
(***************************************************************************)
\* Block n as another fork has it.
ForkMeta(n) == [block_number |-> n, block_hash |-> n + 1, block_timestamp |-> n + 1]

TestMetas == {BlockMeta(1, 1), ForkMeta(1), BlockMeta(3, 3)}

TestBlockBatches ==
    { [add_events(NewBatch, es) EXCEPT !["blocks"] = metas] :
        es \in SeqsUpTo({E1}, 1), metas \in SeqsUpTo(TestMetas, 2) }

TestSendBlocks ==
    /\ TestIdle
    /\ \E b \in TestBlockBatches : db_queue' = <<InsertRequest(b)>>
    /\ UNCHANGED <<store, metrics_queue, gap_queue, harnessVars, pipeVars>>

NextBlocks ==
    \/ TestSendBlocks
    \/ process_insert_complete_blocks
    \/ TestRecvMetric

SpecBlocks == InitStore /\ [][NextBlocks]_vars

\* A step in which DbWriter commits the batch at the head of the db queue.
CommitStep ==
    /\ db_queue # << >>
    /\ Head(db_queue).kind = "InsertCompleteBlocks"
    /\ db_queue' = Tail(db_queue)
    /\ Len(metrics_queue') = Len(metrics_queue) + 1
    /\ Last(metrics_queue').kind = "InsertedEvents"

\* C28: no two rows of blocks have the same block_number; a row for b
\* appears only in the step that commits a batch whose block_meta holds b,
\* and every such commit leaves a row for b; a stored row is never removed
\* or changed, so a later batch that holds b with another hash or timestamp
\* leaves the stored ones.
C28_BlockTable ==
    /\ [](\A r \in BagToSet(store["blocks"]) :
             /\ CopiesIn(r, store["blocks"]) = 1
             /\ \A q \in BagToSet(store["blocks"]) :
                   q.block_number = r.block_number => q = r)
    /\ [][ \A b \in StoredBlockNumbers(store') \ StoredBlockNumbers(store) :
              /\ CommitStep
              /\ \E m \in Elems(Head(db_queue).batch["blocks"]) : m.block_number = b ]_vars
    /\ [][ CommitStep =>
              \A m \in Elems(Head(db_queue).batch["blocks"]) :
                 m.block_number \in StoredBlockNumbers(store') ]_vars
    /\ [][ \A r \in BagToSet(store["blocks"]) : r \in BagToSet(store'["blocks"]) ]_vars

\* C28 witness: block 1 is stored with its first hash, and DbWriter has just
\* committed a batch that holds block 1 with another hash and timestamp.
C28_Witness ==
    /\ BlockRow(BlockMeta(1, 1)) \in BagToSet(store["blocks"])
    /\ metrics_queue # << >>
    /\ Last(metrics_queue).kind = "InsertedEvents"
    /\ ForkMeta(1) \in Elems(Last(metrics_queue).req.batch["blocks"])
    /\ BlockMeta(1, 1) \notin Elems(Last(metrics_queue).req.batch["blocks"])


(***************************************************************************)
(* Subscriptions and the startup block.                                    *)
(***************************************************************************)
\* C29: the live ingestor's provider holds a subscription exactly while the
\* event sequence is being consumed, and the client then belongs to the
\* sequence alone; a subscription is opened only by stream_events, on the
\* client just connected, when none is open; when the sequence terminates
\* the client is released and the next one is opened on a new connection.
\* The gap backfiller's provider keeps its client and never subscribes.
C29_OneSubscription ==
    /\ [](live.subscription # None <=> live.pc = "stream")
    /\ [](live.pc = "stream" => live.provider = None)
    /\ [](live.pc = "connect" => live.provider = None)
    /\ [][ (live'.subscription # None /\ live.pc # "stream") =>
              /\ live.pc = "subscribe"
              /\ live.subscription = None
              /\ live.provider # None
              /\ live'.subscription = live.provider
              /\ gaps' = gaps ]_vars
    /\ [][ (live.pc = "stream" /\ live'.pc # "stream") =>
              /\ live'.pc = "connect"
              /\ live'.subscription = None
              /\ live'.provider = None ]_vars
    /\ [][ (gaps.provider # None => gaps'.provider = gaps.provider)
           /\ (gaps' # gaps => stream' = stream) ]_vars

\* C29 witness: a second sequence is open while the RpcTimeout recorded at
\* the end of the first still waits in the metrics channel.
C29_Witness ==
    /\ live.pc = "stream"
    /\ live.subscription # None
    /\ metrics_queue # << >>
    /\ Head(metrics_queue) = PlainMetric("RpcTimeout")


(***************************************************************************)
(* SpecStartup: the blocks table filled by ensure_block in any order, as   *)
(* tests/database.rs fills it, and then the startup of the indexer on it.  *)
(***************************************************************************)
\* main: the state of the index is read and the tasks are spawned.
main ==
    /\ scans = NoScanner
    /\ live' = LiveStart(get_max_block_number(store))
    /\ gaps' = GapsStart
    /\ scans' = ScannerStart(config.gap_check_interval_secs)
    /\ UNCHANGED <<store, db_queue, metrics_queue, gap_queue, harnessVars>>
    /\ UNCHANGED <<chain, head, config, stream>>

TestEnsureBlockBeforeStart == scans = NoScanner /\ TestEnsureBlock

NextStartup == TestEnsureBlockBeforeStart \/ main

SpecStartup == InitStore /\ [][NextStartup]_vars

\* C30: get_max_block_number returns None exactly on an empty blocks table
\* and otherwise a stored block number that no stored one exceeds; a block
\* inserted below the largest one leaves the value, one above it becomes the
\* value; and main hands the value read from the store to the live ingestor
\* as its start_block.
C30_MaxBlockNumber ==
    /\ [](get_max_block_number(store) = None <=> store["blocks"] = EmptyBag)
    /\ [](get_max_block_number(store) # None =>
             /\ get_max_block_number(store)[1] \in StoredBlockNumbers(store)
             /\ \A x \in StoredBlockNumbers(store) : x <= get_max_block_number(store)[1])
    /\ [][ \A n \in StoredBlockNumbers(store') \ StoredBlockNumbers(store) :
              get_max_block_number(store') =
                 IF get_max_block_number(store) # None
                    /\ n < get_max_block_number(store)[1]
                 THEN get_max_block_number(store)
                 ELSE Some(n) ]_vars
    /\ [][ (scans = NoScanner /\ scans' # NoScanner) =>
              /\ store' = store
              /\ live'.start_block = get_max_block_number(store)
              /\ live'.pc = "connect" ]_vars

\* C30 witness: the indexer has started on a table that holds blocks 4, 1
\* and 2, with start_block Some(4).
C30_Witness ==
    /\ scans # NoScanner
    /\ StoredBlockNumbers(store) = {1, 2, 4}
    /\ live.start_block = Some(4)


(***************************************************************************)
(* SpecNumeric: a reply whose logs carry values of the whole unsigned      *)
(* ranges is decoded and batched as the backfiller does it, written by     *)
(* DbWriter and scanned for gaps.                                          *)
(***************************************************************************)
\* The largest value of the scaled-down U256.
MaxU256 == (MaxByte + 1) ^ U256Len - 1

\* The logs on chain: a Delegate of any block number, validator id,
\* transaction index and amount, and a Delegate of block 1.
WideLogs(n, id, txi, amt) ==
    << Log(n, "t1", txi, 0, "delegate", id, amt, "ok"),
       Log(1, "t2", 0, 1, "delegate", 1, 1, "ok") >>

InitNumeric ==
    /\ store = EmptyStore
    /\ db_queue = <<>>
    /\ metrics_queue = <<>>
    /\ gap_queue = <<>>
    /\ single_report = NoSingleReport
    /\ cr_in = NoChunkCall
    /\ cr_out = NoChunkResult
    /\ \E n \in Word, id \in {0, MaxWord}, txi \in {0, MaxWord}, amt \in 0..MaxU256 :
          chain = << WideLogs(n, id, txi, amt) >>
    /\ head = 1
    /\ config = [db_batch_size |-> 1, backfill_chunk_size |-> 1,
                 gap_check_interval_secs |-> 1, down |-> {}]
    /\ live = LiveStart(None)
    /\ stream = <<>>
    /\ gaps = GapsStart
    /\ scans = NoScanner

\* The reply is decoded and its batch sent to DbWriter.
TestSendDecoded ==
    /\ TestIdle
    /\ process_historical_logs(chain[1]).ok
    /\ db_queue' = <<InsertRequest(process_historical_logs(chain[1]).batch)>>
    /\ UNCHANGED <<store, metrics_queue, gap_queue, harnessVars, pipeVars>>

NextNumeric ==
    \/ TestSendDecoded
    \/ TestSendGetGaps
    \/ process_db_requests
    \/ TestRecvMetric
    \/ TestRecvGap

SpecNumeric == InitNumeric /\ [][NextNumeric]_vars

\* The log on chain a stored event row was decoded from.
ChainLogOf(row) ==
    CHOOSE l \in Elems(chain[1]) : l.transaction_hash = row.transaction_hash

\* C31: every 256-bit unsigned value converts to the decimal of the same
\* value, and the amount read back from a stored event row is the amount of
\* the log on chain, whatever the value.
C31_AmountFidelity ==
    /\ \A v \in 0..MaxU256 : u256_to_bigdecimal(v) = v
    /\ \A t \in StakingEventType : \A row \in BagToSet(store[t]) :
          row.amount = ChainLogOf(row).amount

\* An amount whose bytes differ from one another is stored.
C31_Witness ==
    \E row \in BagToSet(store["delegate"]) :
        /\ row.transaction_hash = "t1"
        /\ row.amount = MaxU256 - 1
        /\ as_le_bytes(ChainLogOf(row).amount) = <<MaxByte - 1, MaxByte>>

\* C32: the integer columns of every stored row are non-negative and equal
\* to the values on chain, for every unsigned value including the upper half
\* of the range, and get_block_gaps converts every row it reads.
C32_NonNegativeIntegers ==
    /\ \A t \in StakingEventType : \A row \in BagToSet(store[t]) :
          /\ row.block_number = ChainLogOf(row).block_number
          /\ row.val_id = ChainLogOf(row).id
          /\ row.transaction_index = ChainLogOf(row).transaction_index
          /\ row.block_number >= 0 /\ row.val_id >= 0 /\ row.transaction_index >= 0
    /\ \A row \in BagToSet(store["blocks"]) :
          row.block_number >= 0 /\ row.block_timestamp >= 0
    /\ Unwraps(store)
    /\ Closed \notin Elems(db_queue)


(***************************************************************************)
(* The batches LiveIngestor and GapBackfiller hand to DbWriter.            *)
(***************************************************************************)
\* A step in which the live ingestor, and no other task, sends a request.
LiveSubmits ==
    /\ Len(db_queue') > Len(db_queue)
    /\ gaps' = gaps
    /\ scans' = scans

\* C33: with batch_size >= 1 the live ingestor sends a batch in exactly the
\* steps in which the count of sealed blocks reaches batch_size: the batch
\* sent has batch_size BlockMeta entries, the working batch is empty and
\* block_count is 0 afterwards. Between hand-offs block_count is the number
\* of blocks of the working batch and stays below batch_size. A request in
\* the db queue is never altered, and the end of a stream sends nothing.
C33_LiveBatchSize ==
    /\ [](live.block_count < config.db_batch_size)
    /\ [](live.block_count = Len(live.batch["blocks"]))
    /\ [][ LET x == extract_event(Head(stream))
               crossing == /\ x.tag = "Some"
                           /\ live.current_block_meta # None
                           /\ live.current_block_meta[1].block_number
                                 # x.event.block_meta.block_number
               reached == crossing /\ live.block_count + 1 = config.db_batch_size
           IN  /\ LiveEventStep => (LiveSubmits <=> reached)
               /\ LiveSubmits =>
                     /\ LiveEventStep
                     /\ db_queue' = Append(db_queue, Last(db_queue'))
                     /\ Last(db_queue').kind = "InsertCompleteBlocks"
                     /\ Len(Last(db_queue').batch["blocks"]) = config.db_batch_size
                     /\ live'.batch = NewBatch
                     /\ live'.block_count = 0
               /\ Extends(db_queue', db_queue) \/ db_queue' = Tail(db_queue)
               /\ (live.pc = "stream" /\ live'.pc # "stream") =>
                     /\ db_queue' = db_queue
                     /\ live'.batch = live.batch
                     /\ live'.block_count = live.block_count ]_vars

\* C33 witness: with batch_size 2 a batch of two blocks waits in the db queue
\* and the live ingestor has started the next one.
C33_Witness ==
    /\ config.db_batch_size = 2
    /\ gaps = GapsStart
    /\ db_queue # <<>>
    /\ Len(Last(db_queue).batch["blocks"]) = 2
    /\ live.block_count = 0
    /\ live.batch = NewBatch
    /\ live.current_block_meta # None


(***************************************************************************)
(* SpecReplies: the gap backfiller on the range [1, 3) of chains whose     *)
(* blocks carry no log, logs of other contract events only, or staking     *)
(* events next to them, all of which decode.                               *)
(***************************************************************************)
L7 == Log(1, "t6", 2, 3, "other", 1, 1, "ok")

ReplyChains ==
    {<<b1, b2>> : b1 \in {<<>>, <<L7>>, <<L2, L7>>, <<L7, L1, L2>>, <<L3, L2>>},
                  b2 \in {<<>>, <<L6>>, <<L4>>, <<L6, L4>>}}

InitReplies ==
    /\ chain \in ReplyChains
    /\ head = 2
    /\ store = EmptyStore
    /\ config \in [db_batch_size : {1}, backfill_chunk_size : 1..MaxBackfillChunk,
                    gap_check_interval_secs : {1}, down : {{}}]
    /\ live = LiveStart(None)
    /\ stream = <<>>
    /\ gaps = GapsStart
    /\ scans = NoScanner
    /\ db_queue = <<>>
    /\ metrics_queue = <<>>
    /\ gap_queue = << [start |-> 1, end |-> 3] >>
    /\ single_report = NoSingleReport
    /\ cr_in = NoChunkCall
    /\ cr_out = NoChunkResult

NextReplies ==
    \/ GapRecv
    \/ GapConnect
    \/ GapChunk
    \/ TestRecvRequest
    \/ process_metrics

SpecReplies == InitReplies /\ [][NextReplies]_vars

\* The logs of a reply that carry a staking event.
StakingLogs(logs) == SelectSeq(logs, LAMBDA l : extract_event(l).tag = "Some")

\* C34: a chunk whose logs were fetched and all decode is answered by at most
\* one batch. When the reply holds staking events the batch is sent in that
\* step; its BlockMeta entries are the metas of the blocks that have a
\* staking event in the reply, each block once, and its events are the
\* decoded events of the reply, each once. When the reply holds none, nothing
\* is sent.
C34_BackfillBatchContents ==
    [][ ( /\ GapChunkFetched
          /\ \A l \in Elems(LogsIn(HistoricalSpan(Head(gaps.chunks)))) :
                extract_event(l).tag # "Err" ) =>
          LET reply == LogsIn(HistoricalSpan(Head(gaps.chunks)))
              events == Decodable(reply)
          IN  IF events = {}
              THEN db_queue' = db_queue
              ELSE /\ db_queue' = Append(db_queue, Last(db_queue'))
                   /\ Last(db_queue').kind = "InsertCompleteBlocks"
                   /\ LET batch == Last(db_queue').batch
                          metas == batch["blocks"]
                      IN  /\ Elems(metas) = {e.block_meta : e \in events}
                          /\ \A i, j \in DOMAIN metas :
                                i # j => metas[i].block_number # metas[j].block_number
                          /\ Elems(CommitOrder(batch)) = events
                          /\ Len(CommitOrder(batch)) = Len(StakingLogs(reply)) ]_vars

\* C34 witness: one batch was sent for a reply of two blocks, one of them
\* with two staking events and a log of another event; it holds both blocks
\* once and the three events.
C34_Witness ==
    /\ chain = << <<L7, L1, L2>>, <<L6, L4>> >>
    /\ gaps.pc = "recv"
    /\ gaps.spans = {[from |-> 1, to |-> 2]}
    /\ Len(db_queue) = 1
    /\ Len(db_queue[1].batch["blocks"]) = 2
    /\ Len(CommitOrder(db_queue[1].batch)) = 3


(***************************************************************************)
(* SpecLive: LiveIngestor and DbWriter on a chain whose stream delivers    *)
(* the logs in block order: the first block with events of two variants,   *)
(* the second starting with a log of another contract event, the third     *)
(* with a log that lacks a field. An earlier run may have indexed block 1. *)
(***************************************************************************)
L8 == Log(3, "t7", 1, 1, "delegate", 1, 1, "ok")
L9 == Log(4, "t8", 0, 0, "undelegate", 1, 1, "ok")
L10 == Log(3, "t9", 0, 0, "delegate", 1, 1, "missing_field")

LiveChain == << <<L1, L2, L3>>, <<L6, L4>>, <<L10, L8>>, <<L9>> >>

InitLive ==
    /\ chain = LiveChain
    /\ head \in 0..1
    /\ store = StoreUpTo(head)
    /\ config \in [db_batch_size : 1..MaxLiveBatchSize, backfill_chunk_size : {1},
                    gap_check_interval_secs : {1}, down : {{}}]
    /\ live = LiveStart(get_max_block_number(store))
    /\ stream = <<>>
    /\ gaps = GapsStart
    /\ scans = NoScanner
    /\ db_queue = <<>>
    /\ metrics_queue = <<>>
    /\ gap_queue = <<>>
    /\ single_report = NoSingleReport
    /\ cr_in = NoChunkCall
    /\ cr_out = NoChunkResult

NextLive ==
    \/ ProduceBlock
    \/ LiveConnect
    \/ LiveSubscribe
    \/ LiveEvent
    \/ LiveStreamEnd
    \/ process_insert_complete_blocks
    \/ process_metrics

SpecLive == InitLive /\ [][NextLive]_vars

\* The place of a log in the delivery of its block.
DeliveryIndex(l) ==
    CHOOSE i \in DOMAIN chain[l.block_number] : chain[l.block_number][i] = l

\* The block numbers of the BlockMeta entries waiting in the db queue.
QueuedBlockNumbers ==
    UNION {BatchBlockNumbers(db_queue[i].batch) : i \in DOMAIN db_queue}

\* C35: DbWriter commits the batches of the live ingestor in the order they
\* were sent; on a stream that delivers in non-decreasing block order the
\* block numbers of a batch are strictly increasing and above those of every
\* batch sent before it; and, in the order in which the batch is written to
\* the store, the events of one block follow the order of their delivery.
C35_LiveCommitOrder ==
    [][ /\ DbWriterStep => db_queue' = Tail(db_queue)
        /\ LiveSubmits =>
              LET batch == Last(db_queue').batch
                  metas == batch["blocks"]
                  order == CommitOrder(batch)
              IN  /\ db_queue' = Append(db_queue, Last(db_queue'))
                  /\ \A i, j \in DOMAIN metas :
                        i < j => metas[i].block_number < metas[j].block_number
                  /\ \A n \in QueuedBlockNumbers \cup StoredBlockNumbers(store) :
                        n < metas[1].block_number
                  /\ \A i, j \in DOMAIN order :
                        (i < j /\ order[i].block_meta = order[j].block_meta)
                           => DeliveryIndex(LogOf(order[i]))
                                 < DeliveryIndex(LogOf(order[j])) ]_vars


(***************************************************************************)
(* SpecScans: gap scans requested one after another on a blocks table that *)
(* is filled in between, while the ranges of earlier scans still wait in   *)
(* the gap channel.                                                        *)
(***************************************************************************)
TestSendGetGapsAgain ==
    /\ db_queue = <<>>
    /\ Len(gap_queue) <= MaxWaiting
    /\ db_queue' = <<GetBlockGapsRequest>>
    /\ UNCHANGED <<store, metrics_queue, gap_queue, harnessVars, pipeVars>>

NextScans ==
    \/ TestEnsureBlock
    \/ TestSendGetGapsAgain
    \/ process_get_block_gaps
    \/ TestRecvGap

SpecScans == InitStore /\ [][NextScans]_vars

\* The ranges a step added at the tail of the gap queue.
Pushed == SubSeq(gap_queue', Len(gap_queue) + 1, Len(gap_queue'))

\* C36: the step that serves a GetBlockGaps request leaves every table as it
\* was and the ranges already waiting in the gap queue in place. Behind them
\* it pushes the ranges the gap query returns on the store of that moment,
\* one per row of the query, each once and in ascending order, also when the
\* same range already waits; when the query fails it pushes nothing.
C36_GetGapsEffect ==
    [][ GapScanStep =>
          /\ store' = store
          /\ metrics_queue' = metrics_queue
          /\ Extends(gap_queue', gap_queue)
          /\ \/ Pushed = <<>>
             \/ /\ Len(Pushed) = Len(GapRows(store))
                /\ \A i \in DOMAIN Pushed :
                      /\ Pushed[i].start = GapRows(store)[i].gap_start
                      /\ Pushed[i].end = GapRows(store)[i].gap_end
                /\ \A i, j \in DOMAIN Pushed : i < j => Pushed[i].end < Pushed[j].start ]_vars

\* C36 witness: two scans of the same store: the two ranges of the first
\* wait in the gap queue with those of the second behind them.
C36_Witness ==
    /\ db_queue = <<>>
    /\ Len(gap_queue) = 4
    /\ gap_queue[1] = gap_queue[3]
    /\ gap_queue[2] = gap_queue[4]
    /\ gap_queue[1].start < gap_queue[2].start
    /\ <<gap_queue[1], gap_queue[2]>> = get_block_gaps(store)


\* A log that carries no staking event for the indexer: its topic0 is no
\* known signature hash, a field is missing, or its payload does not decode.
Ignored(log) == log.topic0 \notin StakingEventType \/ log.form # "ok"

\* C37: a stream item that decodes to None or fails to decode leaves
\* start_block, current_block_meta, current_block_buffer, batch and
\* block_count as they were and sends nothing to the gap queue or the db
\* queue; a start_block that was Some is still Some after it.
C37_IgnoredLogs ==
    [][ (LiveEventStep /\ Ignored(Head(stream))) =>
          /\ live'.start_block = live.start_block
          /\ live'.current_block_meta = live.current_block_meta
          /\ live'.current_block_buffer = live.current_block_buffer
          /\ live'.batch = live.batch
          /\ live'.block_count = live.block_count
          /\ gap_queue' = gap_queue
          /\ db_queue' = db_queue
          /\ store' = store ]_vars

\* C37 witness: the first item of the stream, a log of another event, was
\* consumed and start_block is still Some(1); the Delegate behind it waits.
C37_Witness ==
    /\ live.pc = "stream"
    /\ live.start_block = Some(1)
    /\ live.current_block_meta = None
    /\ head = 2
    /\ stream = <<L4>>
    /\ gap_queue = <<>>


\* Every BlockMeta of the batch has an event of its block in the batch, and
\* every event of the batch has the BlockMeta of its block in it.
WellFormed(batch) ==
    /\ \A i \in DOMAIN batch["blocks"] :
          \E e \in Elems(CommitOrder(batch)) :
              e.block_meta.block_number = batch["blocks"][i].block_number
    /\ \A e \in Elems(CommitOrder(batch)) :
          e.block_meta.block_number \in BatchBlockNumbers(batch)

\* C38: every batch in the db queue, whether the live ingestor or the gap
\* backfiller sent it, has at least one block, an event for each of its
\* BlockMeta entries and the BlockMeta of each of its events; so has the
\* batch the live ingestor is filling, and the events it buffers are those
\* of the block of current_block_meta.
C38_BatchWellFormed ==
    /\ \A i \in DOMAIN db_queue :
          db_queue[i].kind = "InsertCompleteBlocks" =>
              /\ db_queue[i].batch["blocks"] # <<>>
              /\ WellFormed(db_queue[i].batch)
    /\ WellFormed(live.batch)
    /\ \A e \in Elems(live.current_block_buffer) :
          /\ live.current_block_meta # None
          /\ e.block_meta.block_number = live.current_block_meta[1].block_number

\* C38 witness: a batch of the live ingestor with block 2 and its two events
\* and a batch of the gap backfiller wait in the db queue together.
C38_Witness ==
    /\ Len(db_queue) = 2
    /\ gaps.spans # {}
    /\ \E i \in DOMAIN db_queue :
          /\ BatchBlockNumbers(db_queue[i].batch) = {2}
          /\ Len(db_queue[i].batch["delegate"]) = 2
          /\ live.current_block_meta # None
          /\ live.current_block_meta[1].block_number = 3


(***************************************************************************)
(* SpecOrder: two batches wait in the db channel and DbWriter commits them *)
(* one after the other. The batches may hold the same event, two events of *)
(* one natural key with different payloads, and one block as two forks     *)
(* have it.                                                                *)
(***************************************************************************)
OrderBatches ==
    {BatchOf(es) : es \in SeqsUpTo({E1, E2, E3, E4}, MaxBatchEvents) \ {<<>>}}
        \cup {[BatchOf(<<E1>>) EXCEPT !["blocks"] = <<ForkMeta(1)>>]}

TestSendPair ==
    /\ TestIdle
    /\ \E a \in OrderBatches, b \in OrderBatches :
          db_queue' = <<InsertRequest(a), InsertRequest(b)>>
    /\ UNCHANGED <<store, metrics_queue, gap_queue, harnessVars, pipeVars>>

NextOrder ==
    \/ TestSendPair
    \/ process_insert_complete_blocks
    \/ TestRecvMetric

SpecOrder == InitStore /\ [][NextOrder]_vars

\* The store after the batch is committed on pool.
Commit(pool, batch) == insert_many_blocks_inner(pool, batch, 0).pool

\* The rows a batch binds for table t.
BatchRows(batch, t) ==
    IF t = "blocks" THEN {BlockRow(m) : m \in Elems(batch["blocks"])}
    ELSE {EventRow(e) : e \in Elems(batch[t])}

\* Two batches agree: rows of theirs with the same natural key, or the same
\* block_number, are the same row.
Agree(a, b) ==
    \A t \in Tables : \A ra \in BatchRows(a, t), rb \in BatchRows(b, t) :
        Proj(ra, BatchConflictTarget(t)) = Proj(rb, BatchConflictTarget(t)) => ra = rb

\* C39 as stated: whatever two batches wait in the db queue and whatever the
\* store, committing the first and then the second leaves the store that
\* committing the second and then the first leaves.
C39_CommitOrderIndependence ==
    \A i, j \in DOMAIN db_queue :
        (i < j /\ db_queue[i].kind = "InsertCompleteBlocks"
               /\ db_queue[j].kind = "InsertCompleteBlocks") =>
            Commit(Commit(store, db_queue[i].batch), db_queue[j].batch)
               = Commit(Commit(store, db_queue[j].batch), db_queue[i].batch)

\* C39 amended: two batches that agree on every natural key and block_number
\* they share commit to the same store in either order, whatever the store.
C39_AgreeingBatchesCommute ==
    \A i, j \in DOMAIN db_queue :
        (i < j /\ db_queue[i].kind = "InsertCompleteBlocks"
               /\ db_queue[j].kind = "InsertCompleteBlocks"
               /\ Agree(db_queue[i].batch, db_queue[j].batch)) =>
            Commit(Commit(store, db_queue[i].batch), db_queue[j].batch)
               = Commit(Commit(store, db_queue[j].batch), db_queue[i].batch)

\* C39 witness: on a store that already holds another payload for the key of
\* E1, two different batches wait that both carry E1; they agree.
C39_Witness ==
    /\ Len(db_queue) = 2
    /\ db_queue[1].batch = BatchOf(<<E1, E4>>)
    /\ db_queue[2].batch = BatchOf(<<E1>>)
    /\ Agree(db_queue[1].batch, db_queue[2].batch)
    /\ EventRow(E3) \in BagToSet(store["delegate"])


(***************************************************************************)
(* chunk_range on the whole unsigned range.                                *)
(***************************************************************************)
\* ceil(n / k)
CeilDiv(n, k) == (n + k - 1) \div k

\* C40: for a <= b and chunk_size k >= 1, chunk_range returns after
\* ceil((b - a) / k) iterations, one chunk pushed in each, and no chunk has
\* its end below its start, also when b is within k of the largest word; for
\* k = 0 it returns no result.
C40_ChunkRangeTotality ==
    cr_out.status # "none" =>
        IF cr_in.chunk_size = 0
        THEN cr_out.status # "returns"
        ELSE /\ cr_out.status = "returns"
             /\ Len(cr_out.chunks) = CeilDiv(cr_in.end - cr_in.start, cr_in.chunk_size)
             /\ \A i \in DOMAIN cr_out.chunks :
                   cr_out.chunks[i].start <= cr_out.chunks[i].end

====
